---- MODULE Spec2Model ----
(***************************************************************************)
(* yit: a terminal controller for a background mpv player.                 *)
(* The model follows src/src/yit/{ipc,storage,commands}.py.  One           *)
(* invocation of the program runs at a time; it advances from one          *)
(* control-channel call to the next (pc), the player answering each call   *)
(* as it likes.  The three JSON documents (results, history, favorites)    *)
(* are whole-file values.                                                  *)
(***************************************************************************)
EXTENDS Integers, Sequences, FiniteSets, TLC

VARIABLES
    resultsFile,   \* ~/.yit/results.json
    historyFile,   \* ~/.yit/history.json
    favFile,       \* ~/.yit/favorites.json
    player,        \* the mpv process behind the channel endpoint
    pc,            \* position of the running invocation
    frame,         \* locals of the running command / play_tracks; unreadable:
                   \* storage.py:12 was reached (history did not parse)
    probe,         \* the call made at commands.py:85 (is_running)
    lastCall,      \* the most recent control-channel call of the invocation
    calls,         \* requests passed to the channel client by the invocation
    spawns,        \* argument vectors passed to subprocess.Popen
    out,           \* messages printed by the invocation
    loaded,        \* what the player did with the loadfile calls of the
                   \* invocation: replaced (one was applied in mode replace,
                   \* so nothing older is in its playlist), urls (those it
                   \* put on the playlist, in order), skipped (one was not
                   \* applied)
    fault,         \* how the invocation ended: none / exception / sysexit
    updateFile,    \* ~/.yit/update.json, the update check's cache
    clock,         \* time.time(), in seconds
    requests       \* the times of the update check's calls to PyPI

vars == <<resultsFile, historyFile, favFile, player, pc, frame, probe,
          lastCall, calls, spawns, out, loaded, fault, updateFile, clock,
          requests>>

(***************************************************************************)
(* Bounds and input universes                                              *)
(***************************************************************************)
MaxResults == 2
MaxFavs == 3
MaxBatch == 3

Track(t, u) == [title |-> t, url |-> u]

\* Tracks the search tool / the player can report: u1 is known under two titles.
TRACKS == { Track("A", "u1"), Track("B", "u1"), Track("C", "u2") }

RECURSIVE SeqsUpTo(_, _)
SeqsUpTo(S, n) ==
    IF n = 0 THEN { <<>> }
    ELSE LET shorter == SeqsUpTo(S, n - 1)
         IN shorter \cup { Append(s, x) : s \in shorter, x \in S }

\* What one run of the search tool can print, as (title, url) pairs: a line
\* is listed once, a url may come back under two titles.
SearchOutputs ==
    { l \in SeqsUpTo(TRACKS, MaxResults) : \A j, k \in 1..Len(l) : l[j] = l[k] => j = k }

\* A wider catalogue for the favorites commands: three urls, so that a
\* favorites list (one entry per url) can have entries before and after the
\* one removed.
FAVTRACKS == TRACKS \cup { Track("D", "u3") }

FavSearchOutputs == SeqsUpTo(FAVTRACKS, MaxFavs)

(***************************************************************************)
(* Sequence helpers                                                        *)
(***************************************************************************)
Urls(list) == [k \in 1..Len(list) |-> list[k].url]

HasUrl(list, u) == \E k \in 1..Len(list) : list[k].url = u

UniqueUrls(list) ==
    \A j, k \in 1..Len(list) : list[j].url = list[k].url => j = k

IsPrefix(s, t) == Len(s) <= Len(t) /\ SubSeq(t, 1, Len(s)) = s

\* Mutant: the entry at the 1-based position idx + 2 goes.
PopNext(list, idx) ==
    [k \in 1..(Len(list) - 1) |-> IF k <= idx + 1 THEN list[k] ELSE list[k + 1]]

\* list.pop(idx) with a 0-based idx
Pop(list, idx) ==
    [k \in 1..(Len(list) - 1) |-> IF k <= idx THEN list[k] ELSE list[k + 1]]

\* Mutant: no lower end, as in Python's indexing from the end.
InRangeNegative(idx, list) == idx < Len(list)

\* Mutant: the upper end of the range is accepted.
InRangeInclusive(idx, list) == 0 <= idx /\ idx <= Len(list)

\* commands.py:422: 0 <= idx < len(favs)
InRange(idx, list) == 0 <= idx /\ idx < Len(list)

(***************************************************************************)
(* Persisted documents: st is "missing", "ok" (parses) or "corrupt"        *)
(* (exists, json.load raises); items are the entries written in it.        *)
(***************************************************************************)
Missing == [st |-> "missing", items |-> <<>>]

Written(list) == [st |-> "ok", items |-> list]

\* storage.py:7-13 and 31-38: a missing or unparseable document loads as [].
load_history(file) == IF file.st = "ok" THEN file.items ELSE <<>>

\* Mutant: whatever the file holds is returned, parseable or not.
load_favorites_unchecked(file) == file.items

load_favorites(file) == IF file.st = "ok" THEN file.items ELSE <<>>

\* Mutant: no duplicate check.
AppendAlways(history, track) == Append(history, track)

\* Mutant: an existing entry takes the new title.
ReplaceIfPresent(history, track) ==
    IF HasUrl(history, track.url)
    THEN [k \in 1..Len(history) |->
             IF history[k].url = track.url THEN track ELSE history[k]]
    ELSE Append(history, track)

\* storage.py:15-23: append unless an entry with the same url exists.
AppendIfNew(history, track) ==
    IF HasUrl(history, track.url) THEN history ELSE Append(history, track)

\* Mutant: the document is not loaded before it is rewritten.
save_to_history_unloaded(file, track) == Written(AppendIfNew(<<>>, track))

\* storage.py:4-29: load, append if new, rewrite the whole document.
save_to_history(file, track) == Written(AppendIfNew(load_history(file), track))

\* storage.py:40-43
save_favorites(favs) == Written(favs)

\* utils.py:19, 24: the check is skipped within 86400 seconds of the last one
Window == 86400

\* utils.py:20, 32-33: the cache is not there, or holds the time of a check
NoCache == [st |-> "missing", last_checked |-> 0]
CheckedAt(t) == [st |-> "ok", last_checked |-> t]

(***************************************************************************)
(* Control-channel client (ipc.py).  A request is the list under           *)
(* "command", its arguments as JSON tokens.  The player's side of one      *)
(* call is a reply o = [kind, data]:                                       *)
(*   nofile   connect raises FileNotFoundError (no endpoint)               *)
(*   refused  connect raises ConnectionRefusedError (nobody listens)       *)
(*   epipe    connected, then an OSError raised by f.write                 *)
(*   oserror  connected, then an OSError raised by f.readline              *)
(*   garbage  a response line that is not JSON                             *)
(*   eof      an empty read                                                *)
(*   error    a JSON object whose error is not "success"                   *)
(*   success  {"error": "success", "data": data}                           *)
(***************************************************************************)
GetProperty(prop) == <<"get_property", prop>>
SetProperty(prop, value) == <<"set_property", prop, value>>
LoadFile(url, mode) == <<"loadfile", url, mode>>

None == [none |-> TRUE, error |-> "", data |-> "null"]
Resp(e, d) == [none |-> FALSE, error |-> e, data |-> d]

\* Python truthiness of a returned value / of a "data" field
Truthy(r) == ~r.none
HasData(r) == ~r.none /\ r.data \notin {"null", "", "false"}
IsSuccess(r) == Truthy(r) /\ r.error = "success"

AbsentKinds == {"nofile", "refused"}
ConnectedKinds == {"epipe", "oserror", "garbage", "eof", "error", "success"}

\* What the player may answer to the next call.  A listening player may have
\* gone by then, a starting one may have begun to listen.
Replies(p, dataSet) ==
    (IF p = "absent" THEN {}
     ELSE [kind : {"success"}, data : dataSet]
          \cup [kind : ConnectedKinds \ {"success"}, data : {"null"}])
    \cup [kind : AbsentKinds, data : {"null"}]

\* The player as the call found it, and after a quit it accepted.
PlayerAfter(p, c) ==
    CASE c.env \in AbsentKinds -> IF p = "listening" THEN "absent" ELSE p
      [] c.req[1] = "quit" /\ c.env = "success" -> "absent"
      [] OTHER -> "listening"

\* ipc.py:35-42: connect_ipc raises when nobody is behind the endpoint.
ConnectError(o) ==
    CASE o.kind = "nofile"  -> "FileNotFoundError"
      [] o.kind = "refused" -> "ConnectionRefusedError"
      [] OTHER              -> ""

\* ipc.py:48-54: the exception raised inside the with-block of send_ipc_command.
SendBodyError(o) ==
    CASE o.kind = "epipe"   -> "OSError"
      [] o.kind = "oserror" -> "OSError"
      [] o.kind = "garbage" -> "JSONDecodeError"
      [] OTHER              -> ""

\* ipc.py:66-73: the same for get_ipc_property, where json.loads("") raises too.
GetBodyError(o) ==
    CASE o.kind = "epipe"   -> "OSError"
      [] o.kind = "oserror" -> "OSError"
      [] o.kind = "garbage" -> "JSONDecodeError"
      [] o.kind = "eof"     -> "JSONDecodeError"
      [] OTHER              -> ""

\* The parsed response line (ipc.py:51-54, 72-73) when nothing was raised.
Parsed(o) ==
    CASE o.kind = "eof"   -> Resp("no_response", "null")
      [] o.kind = "error" -> Resp("error", o.data)
      [] OTHER            -> Resp("success", o.data)

\* Mutant: the first clause names ConnectionRefusedError only and the second
\* ValueError, so a missing endpoint is not handled.
SendHandlerNarrow(exc) ==
    IF exc \in {"ConnectionRefusedError"}
    THEN "return None"
    ELSE IF exc \in {"JSONDecodeError"}
    THEN "print, return None"
    ELSE "propagate"

\* ipc.py:55-60: the except clauses of send_ipc_command, in order.
SendHandler(exc) ==
    IF exc \in {"FileNotFoundError", "ConnectionRefusedError", "OSError"}
    THEN "return None"
    ELSE IF exc \in {"JSONDecodeError"}
    THEN "print, return None"
    ELSE "propagate"

\* ipc.py:74-77: the except clauses of get_ipc_property, in order.
GetHandler(exc) ==
    IF exc \in {"FileNotFoundError", "ConnectionRefusedError", "OSError"}
    THEN "return None"
    ELSE IF exc \in {"JSONDecodeError"}
    THEN "return None"
    ELSE "propagate"

\* Mutant: close leaves the connection as it is.
SocketWrapperCloseNothing == <<>>

\* ipc.py:22-27: close() of the connection object
SocketWrapperClose == <<"close">>

\* Mutant: the connection is closed only when the block ends normally.
WithExitUnlessRaised(exc) == IF exc = "" THEN SocketWrapperClose ELSE <<>>

\* ipc.py:32-33: __exit__ runs however the with-block is left
WithExit(exc) == SocketWrapperClose

\* ipc.py:49-51, 68-72: the operations the with-block performs on the
\* connection, up to and including the one that raises
Exchange(o) ==
    CASE o.kind = "epipe" -> <<"write">>
      [] OTHER            -> <<"write", "flush", "readline">>

\* ipc.py:47, 65: what one call does with its connection.  A connect that
\* raises leaves no connection and the with-block is never entered.
Connection(o, exc) ==
    IF ConnectError(o) # "" THEN <<"connect failed">>
    ELSE <<"connect">> \o Exchange(o) \o WithExit(exc)

\* Mutant: the list is written without the object around it.
PayloadBare(command) == <<command, "\n">>

\* ipc.py:48, 66-67: json.dumps of the object {"command": [...]} and "\n"
Payload(command) == <<[command |-> command], "\n">>

\* ipc.py:44-60.  wrote: the payload reached f.write; sent: that payload; logged: line 59 printed;
\* raised: an exception left the function; conn: its connection's operations.
send_ipc_command(command, o) ==
    LET exc == IF ConnectError(o) # "" THEN ConnectError(o) ELSE SendBodyError(o)
    IN  [ fn     |-> "send_ipc_command",
          req    |-> command,
          env    |-> o.kind,
          ret    |-> IF exc = "" THEN Parsed(o) ELSE None,
          wrote  |-> ConnectError(o) = "",
          sent   |-> IF ConnectError(o) = "" THEN Payload(command) ELSE <<>>,
          logged |-> exc # "" /\ SendHandler(exc) = "print, return None",
          raised |-> exc # "" /\ SendHandler(exc) = "propagate",
          conn   |-> Connection(o, exc) ]

\* ipc.py:62-77: nothing is printed on any failure.
get_ipc_property(prop, o) ==
    LET exc == IF ConnectError(o) # "" THEN ConnectError(o) ELSE GetBodyError(o)
    IN  [ fn     |-> "get_ipc_property",
          req    |-> GetProperty(prop),
          env    |-> o.kind,
          ret    |-> IF exc = "" THEN Parsed(o) ELSE None,
          wrote  |-> ConnectError(o) = "",
          sent   |-> IF ConnectError(o) = "" THEN Payload(GetProperty(prop)) ELSE <<>>,
          logged |-> FALSE,
          raised |-> exc # "" /\ GetHandler(exc) = "propagate",
          conn   |-> Connection(o, exc) ]

NoCall == [fn |-> "", req |-> <<>>, env |-> "", ret |-> None,
           wrote |-> FALSE, sent |-> <<>>, logged |-> FALSE, raised |-> FALSE,
           conn |-> <<>>]

(***************************************************************************)
(* Command arguments                                                       *)
(***************************************************************************)
\* args.target of `fav`: absent, not a number, or a number (commands.py:381,388)
NoTarget == [given |-> FALSE, numeric |-> FALSE, n |-> 0]
TextTarget == [given |-> TRUE, numeric |-> FALSE, n |-> 0]
NumTarget(n) == [given |-> TRUE, numeric |-> TRUE, n |-> n]

\* int(args.target) where the command gets that far, -1 where no number is
\* given
Ordinal(target) == IF target.given /\ target.numeric THEN target.n ELSE -1

Targets == {NoTarget, TextTarget} \cup { NumTarget(n) : n \in 0..(MaxFavs + 1) }

\* args.number of `play` and `add`
Numbers == 0..(MaxResults + 1)

\* commands.py:96-108: the argument vector handed to subprocess.Popen
FixedFlags ==
    << "--no-video", "--idle", "--cache=yes", "--prefetch-playlist=yes",
       "--demuxer-max-bytes=128M", "--demuxer-max-back-bytes=128M",
       "--input-ipc-server=IPC_PIPE" >>

\* Mutant: only the first track is handed to the player.
SpawnArgsFirstOnly(tracks) == <<"mpv">> \o FixedFlags \o <<tracks[1].url>>

SpawnArgs(tracks) == <<"mpv">> \o FixedFlags \o Urls(tracks)

\* Mutant: the first track is appended to what the player holds.
FirstLoadAppend(tracks) == LoadFile(tracks[1].url, "append")

\* commands.py:89: the first track replaces what the player holds
FirstLoad(tracks) == LoadFile(tracks[1].url, "replace")

\* Mutant: the remaining tracks are appended last to first.
NextAppendReversed(tracks, i) == LoadFile(tracks[Len(tracks) - i + 2].url, "append")

\* commands.py:92-93: tracks[1:] are appended, i (1-based) running over 2..len
NextAppend(tracks, i) == LoadFile(tracks[i].url, "append")

NothingLoaded == [replaced |-> FALSE, urls |-> <<>>, skipped |-> FALSE]

\* mcp_server.py:158: the argument of a play_favorites tool call: none
\* received, received without index_to_play, received with index_to_play = n
NoRequest == [requested |-> FALSE, given |-> FALSE, n |-> 0]
NoIndex == [requested |-> TRUE, given |-> FALSE, n |-> 0]
Index(n) == [requested |-> TRUE, given |-> TRUE, n |-> n]

NoFrame ==
    [cmd |-> "", tracks |-> <<>>, i |-> 0, base |-> 0, guarded |-> FALSE,
     number |-> 0, track |-> Track("", ""), unreadable |-> FALSE,
     tool |-> NoRequest, now |-> 0]

(***************************************************************************)
(* Initial state: nothing stored yet, no player, no invocation running.    *)
(***************************************************************************)
Init ==
    /\ resultsFile = Missing
    /\ historyFile = Missing
    /\ favFile = Missing
    /\ player = "absent"
    /\ pc = "idle"
    /\ frame = NoFrame
    /\ probe = NoCall
    /\ lastCall = NoCall
    /\ calls = <<>>
    /\ spawns = <<>>
    /\ out = <<>>
    /\ loaded = NothingLoaded
    /\ fault = "none"
    /\ updateFile = NoCache
    /\ clock = Window
    /\ requests = <<>>

(***************************************************************************)
(* Fragments shared by the commands                                        *)
(***************************************************************************)
\* The command returns after printing msgs.
Return(cmd, msgs) ==
    /\ pc' = "done"
    /\ out' = msgs
    /\ frame' = [frame EXCEPT !.cmd = cmd]

\* The player's side of a loadfile call: it applies the command exactly when
\* it answers "success"; replace clears its playlist, append and append-play
\* add at the end.
Loaded(l, c) ==
    IF c.req[1] # "loadfile" THEN l
    ELSE IF c.env # "success" THEN [l EXCEPT !.skipped = TRUE]
    ELSE IF c.req[3] = "replace"
    THEN [l EXCEPT !.replaced = TRUE, !.urls = <<c.req[2]>>]
    ELSE [l EXCEPT !.urls = Append(@, c.req[2])]

\* The command returns after printing msgs, having been given the ordinal n.
ReturnN(cmd, n, msgs) ==
    /\ pc' = "done"
    /\ out' = msgs
    /\ frame' = [frame EXCEPT !.cmd = cmd, !.number = n]

\* One control-channel call c made by the invocation.
Issue(c) ==
    /\ calls' = Append(calls, c.req)
    /\ lastCall' = c
    /\ player' = PlayerAfter(player, c)
    /\ loaded' = Loaded(loaded, c)

\* Mutant: the last track of the batch is recorded as well.
SavedOnPlayBothEnds(file, tracks) ==
    save_to_history(save_to_history(file, tracks[1]), tracks[Len(tracks)])

\* commands.py:78, 83: first_track = tracks[0]; save_to_history(first_track)
SavedOnPlay(file, tracks) == save_to_history(file, tracks[1])

\* commands.py:74-83: play_tracks up to the probe.  base is the number of
\* calls the invocation made before play_tracks was entered.
PlayTracksEnter(cmd, number, tracks, guarded, base, msgs) ==
    /\ historyFile' = SavedOnPlay(historyFile, tracks)
    /\ frame' = [frame EXCEPT !.cmd = cmd, !.number = number,
                              !.tracks = tracks, !.i = 2,
                              !.base = base, !.guarded = guarded,
                              !.track = tracks[1],
                              !.unreadable = @ \/ historyFile.st = "corrupt"]
    /\ out' = msgs \o <<"Playing">>
                   \o (IF Len(tracks) > 1 THEN <<"others queued">> ELSE <<>>)
    /\ probe' = NoCall
    /\ pc' = "probe"

\* commands.py:130-148: cmd_play reading the results document rf.
CmdPlayBody(cmd, rf, number, base, msgs) ==
    IF rf.st = "missing"
    THEN ReturnN(cmd, number, msgs \o <<"No search results found">>)
         /\ UNCHANGED <<historyFile, probe>>
    ELSE IF rf.st = "corrupt"
    THEN ReturnN(cmd, number, msgs \o <<"Error playing">>)
         /\ UNCHANGED <<historyFile, probe>>
    ELSE IF number - 1 < 0 \/ number - 1 >= Len(rf.items)
    THEN ReturnN(cmd, number, msgs \o <<"Invalid selection number">>)
         /\ UNCHANGED <<historyFile, probe>>
    ELSE PlayTracksEnter(cmd, number, <<rf.items[number]>>, TRUE, base, msgs)

\* Mutant: the duplicate check compares whole entries instead of urls.
FavsAfterAddByEntry(favs, track) ==
    IF \E k \in 1..Len(favs) : favs[k] = track THEN favs ELSE Append(favs, track)

\* commands.py:409-412: the favorites after adding track_to_add.
FavsAfterAdd(favs, track) ==
    IF HasUrl(favs, track.url) THEN favs ELSE Append(favs, track)

\* commands.py:408-414: save and report; nothing is written for a duplicate.
FavAppend(cmd, n, favs, track) ==
    /\ Len(FavsAfterAdd(favs, track)) <= MaxFavs
    /\ favFile' = IF FavsAfterAdd(favs, track) = favs
                  THEN favFile ELSE save_favorites(FavsAfterAdd(favs, track))
    /\ pc' = "done"
    /\ out' = IF FavsAfterAdd(favs, track) = favs
              THEN <<"Already in favorites">> ELSE <<"Added to favorites">>
    /\ frame' = [frame EXCEPT !.cmd = cmd, !.number = n, !.track = track]

(***************************************************************************)
(* Commands: the part of each handler up to its first control-channel call *)
(***************************************************************************)
\* commands.py:14-72.  tool: the search tool cannot be run / exits non-zero /
\* prints `lines`; play: the -p flag.
cmd_search(tool, lines, play) ==
    /\ pc = "idle"
    /\ UNCHANGED <<favFile, player, lastCall, calls, loaded, spawns>>
    /\ CASE tool = "raises" ->
            \* line 67-70: `results` was never bound, -p reads it
            /\ Return("search", <<"Searching", "Unexpected error">>)
            /\ fault' = IF play THEN "exception" ELSE "none"
            /\ UNCHANGED <<resultsFile, historyFile, probe>>
         [] tool = "nonzero" ->
            /\ Return("search", <<"Searching", "yt-dlp returned">>)
            /\ UNCHANGED <<resultsFile, historyFile, probe, fault>>
         [] tool = "ok" /\ lines = <<>> ->
            /\ Return("search", <<"Searching", "Results", "No results found">>)
            /\ UNCHANGED <<resultsFile, historyFile, probe, fault>>
         [] tool = "ok" /\ lines # <<>> ->
            /\ resultsFile' = Written(lines)
            /\ UNCHANGED fault
            /\ IF play
               THEN CmdPlayBody("search", Written(lines), 1, 0,
                                <<"Searching", "Results", "Auto-playing">>)
               ELSE /\ Return("search", <<"Searching", "Results">>)
                    /\ UNCHANGED <<historyFile, probe>>
    /\ UNCHANGED <<updateFile, clock, requests>>

\* commands.py:130-148
cmd_play(number) ==
    /\ pc = "idle"
    /\ CmdPlayBody("play", resultsFile, number, 0, <<>>)
    /\ UNCHANGED <<resultsFile, favFile, player, lastCall, calls, loaded, spawns, fault>>
    /\ UNCHANGED <<updateFile, clock, requests>>

\* commands.py:174-190: cmd_add up to the loadfile call
cmd_add(number) ==
    /\ pc = "idle"
    /\ UNCHANGED <<resultsFile, favFile, player, probe, lastCall, calls, loaded, spawns, fault>>
    /\ IF resultsFile.st = "missing"
       THEN ReturnN("add", number, <<"No search results found">>) /\ UNCHANGED historyFile
       ELSE IF resultsFile.st = "corrupt"
       THEN ReturnN("add", number, <<"Error adding to queue">>) /\ UNCHANGED historyFile
       ELSE IF number - 1 < 0 \/ number - 1 >= Len(resultsFile.items)
       THEN ReturnN("add", number, <<"Invalid selection number">>) /\ UNCHANGED historyFile
       ELSE /\ historyFile' = save_to_history(historyFile, resultsFile.items[number])
            /\ frame' = [frame EXCEPT !.cmd = "add", !.number = number,
                                      !.track = resultsFile.items[number],
                                      !.unreadable = historyFile.st = "corrupt"]
            /\ out' = <<"Adding to queue">>
            /\ pc' = "add_load"
    /\ UNCHANGED <<updateFile, clock, requests>>

\* commands.py:162-164
cmd_stop ==
    /\ pc = "idle"
    /\ \E o \in Replies(player, {"null"}) : Issue(send_ipc_command(<<"quit">>, o))
    /\ Return("stop", <<"Stopped">>)
    /\ UNCHANGED <<resultsFile, historyFile, favFile, probe, spawns, fault>>
    /\ UNCHANGED <<updateFile, clock, requests>>

\* commands.py:367-376
cmd_fav_list ==
    /\ pc = "idle"
    /\ Return("fav_list", IF load_favorites(favFile) = <<>>
                          THEN <<"No favorites yet">> ELSE <<"Favorites">>)
    /\ UNCHANGED <<resultsFile, historyFile, favFile, player, probe, lastCall,
                   calls, loaded, spawns, fault>>
    /\ UNCHANGED <<updateFile, clock, requests>>

\* commands.py:367-368, 378-414: `fav add`, up to the first get_property when
\* no index is given
cmd_fav_add(target) ==
    /\ pc = "idle"
    /\ UNCHANGED <<resultsFile, historyFile, player, probe, lastCall, calls, loaded,
                   spawns, fault>>
    /\ IF target.given
       THEN IF resultsFile.st = "missing"
            THEN ReturnN("fav_add", Ordinal(target), <<"No search results found">>)
                 /\ UNCHANGED favFile
            ELSE IF resultsFile.st = "corrupt" \/ ~target.numeric
            THEN ReturnN("fav_add", Ordinal(target), <<"Error reading results">>)
                 /\ UNCHANGED favFile
            ELSE IF InRange(target.n - 1, resultsFile.items)
            THEN FavAppend("fav_add", target.n, load_favorites(favFile),
                           resultsFile.items[target.n])
            ELSE ReturnN("fav_add", target.n, <<"Invalid index">>) /\ UNCHANGED favFile
       ELSE /\ frame' = [frame EXCEPT !.cmd = "fav_add", !.number = Ordinal(target)]
            /\ pc' = "fav_path"
            /\ UNCHANGED <<favFile, out>>
    /\ UNCHANGED <<updateFile, clock, requests>>

\* commands.py:367-368, 416-429
cmd_fav_remove(target) ==
    /\ pc = "idle"
    /\ UNCHANGED <<resultsFile, historyFile, player, probe, lastCall, calls, loaded,
                   spawns, fault>>
    /\ LET favs == load_favorites(favFile)
           idx == target.n - 1
       IN  IF ~target.given
           THEN ReturnN("fav_remove", Ordinal(target), <<"Specify an index to remove">>)
                /\ UNCHANGED favFile
           ELSE IF ~target.numeric
           THEN ReturnN("fav_remove", Ordinal(target), <<"Invalid index found">>)
                /\ UNCHANGED favFile
           ELSE /\ pc' = "done"
                /\ frame' = [frame EXCEPT !.cmd = "fav_remove", !.number = target.n]
                /\ IF InRange(idx, favs)
                   THEN /\ favFile' = save_favorites(Pop(favs, idx))
                        /\ out' = <<"Removed">>
                   ELSE /\ out' = <<"Invalid index">>
                        /\ UNCHANGED favFile
    /\ UNCHANGED <<updateFile, clock, requests>>

\* commands.py:367-368, 431-449
cmd_fav_play(target) ==
    /\ pc = "idle"
    /\ UNCHANGED <<resultsFile, favFile, player, lastCall, calls, loaded, spawns, fault>>
    /\ LET favs == load_favorites(favFile)
           idx == target.n - 1
       IN  IF favs = <<>>
           THEN ReturnN("fav_play", Ordinal(target), <<"No favorites to play">>)
                /\ UNCHANGED <<historyFile, probe>>
           ELSE IF target.given
           THEN IF target.numeric /\ InRange(idx, favs)
                THEN PlayTracksEnter("fav_play", target.n, <<favs[idx + 1]>>, FALSE, 0, <<>>)
                ELSE ReturnN("fav_play", Ordinal(target), <<"Invalid index">>)
                     /\ UNCHANGED <<historyFile, probe>>
           ELSE PlayTracksEnter("fav_play", Ordinal(target), favs, FALSE, 0,
                                <<"Playing all">>)
    /\ UNCHANGED <<updateFile, clock, requests>>

(***************************************************************************)
(* Steps of a running invocation, one control-channel call (or the spawn)  *)
(* each                                                                    *)
(***************************************************************************)
\* commands.py:85-88 and 94: the probe and the branch on its result
Probe ==
    /\ pc = "probe"
    /\ \E o \in Replies(player, {"true"}) :
          LET c == send_ipc_command(GetProperty("idle-active"), o)
          IN  /\ Issue(c)
              /\ probe' = c
              /\ IF Truthy(c.ret) /\ c.ret.error = "success"
                 THEN /\ out' = out \o <<"Added to existing player">>
                      /\ pc' = "replace"
                 ELSE /\ out' = out
                      /\ pc' = "spawn"
    /\ UNCHANGED <<resultsFile, historyFile, favFile, frame, spawns, fault>>
    /\ UNCHANGED <<updateFile, clock, requests>>

\* Mutant: the attached branch stops at the first call that did not succeed.
AfterCallChecked(c, next) == IF IsSuccess(c.ret) THEN next ELSE "done"

\* commands.py:89-93: the value send_ipc_command returns is dropped, so the
\* next statement runs whatever the call c came to.
AfterCall(c, next) == next

\* commands.py:89
Replace ==
    /\ pc = "replace"
    /\ \E o \in Replies(player, {"null"}) :
          LET c == send_ipc_command(FirstLoad(frame.tracks), o)
          IN  /\ Issue(c)
              /\ pc' = AfterCall(c, "unpause")
    /\ UNCHANGED <<resultsFile, historyFile, favFile, frame, probe, spawns, out, fault>>
    /\ UNCHANGED <<updateFile, clock, requests>>

\* commands.py:90
Unpause ==
    /\ pc = "unpause"
    /\ \E o \in Replies(player, {"null"}) :
          LET c == send_ipc_command(SetProperty("pause", "false"), o)
          IN  /\ Issue(c)
              /\ pc' = AfterCall(c, IF frame.i <= Len(frame.tracks)
                                    THEN "append" ELSE "done")
    /\ UNCHANGED <<resultsFile, historyFile, favFile, frame, probe, spawns, out, fault>>
    /\ UNCHANGED <<updateFile, clock, requests>>

\* commands.py:92-93: one turn of the loop over tracks[1:]
AppendNext ==
    /\ pc = "append"
    /\ \E o \in Replies(player, {"null"}) :
          LET c == send_ipc_command(NextAppend(frame.tracks, frame.i), o)
          IN  /\ Issue(c)
              /\ pc' = AfterCall(c, IF frame.i + 1 <= Len(frame.tracks)
                                    THEN "append" ELSE "done")
    /\ frame' = [frame EXCEPT !.i = frame.i + 1]
    /\ UNCHANGED <<resultsFile, historyFile, favFile, probe, spawns, out, fault>>
    /\ UNCHANGED <<updateFile, clock, requests>>

\* commands.py:95-128.  mpv: get_mpv_path finds the binary or exits
\* (installer.py:19-32); launch: Popen returns or raises.  A raise is caught
\* at commands.py:147 when play_tracks runs under cmd_play, not under cmd_fav.
Spawn ==
    /\ pc = "spawn"
    /\ \E mpv \in {"found", "missing"}, launch \in {"ok", "oserror"} :
          IF mpv = "missing"
          THEN /\ out' = out \o <<"MPV is required">>
               /\ fault' = "sysexit"
               /\ UNCHANGED <<spawns, player>>
          ELSE /\ spawns' = Append(spawns, SpawnArgs(frame.tracks))
               /\ IF launch = "ok"
                  THEN /\ out' = out \o <<"Player started in background">>
                       /\ player' = IF player = "absent" THEN "starting" ELSE player
                       /\ UNCHANGED fault
                  ELSE /\ out' = IF frame.guarded THEN out \o <<"Error playing">> ELSE out
                       /\ fault' = IF frame.guarded THEN "none" ELSE "exception"
                       /\ UNCHANGED player
    /\ pc' = "done"
    /\ UNCHANGED <<resultsFile, historyFile, favFile, frame, probe, lastCall, calls, loaded>>
    /\ UNCHANGED <<updateFile, clock, requests>>

\* commands.py:192-198: the loadfile of cmd_add and the fall-back to cmd_play
AddLoad ==
    /\ pc = "add_load"
    /\ \E o \in Replies(player, {"null"}) :
          LET res == send_ipc_command(LoadFile(frame.track.url, "append-play"), o)
          IN  /\ Issue(res)
              /\ IF ~Truthy(res.ret) \/ res.ret.error # "success"
                 THEN CmdPlayBody("add", resultsFile, frame.number, Len(calls) + 1,
                                  out \o <<"Player not running (or append failed)">>)
                 ELSE /\ Return("add", out \o <<"Added to queue">>)
                      /\ UNCHANGED <<historyFile, probe>>
    /\ UNCHANGED <<resultsFile, favFile, spawns, fault>>
    /\ UNCHANGED <<updateFile, clock, requests>>

\* commands.py:399: path of the track being played
FavPath ==
    /\ pc = "fav_path"
    /\ \E o \in Replies(player, {"null"} \cup { t.url : t \in TRACKS }) :
          LET path_resp == get_ipc_property("path", o)
          IN  /\ Issue(path_resp)
              /\ frame' = [frame EXCEPT !.track.url =
                              IF HasData(path_resp.ret) THEN path_resp.ret.data ELSE ""]
    /\ pc' = "fav_title"
    /\ UNCHANGED <<resultsFile, historyFile, favFile, probe, spawns, out, fault>>
    /\ UNCHANGED <<updateFile, clock, requests>>

\* commands.py:400-414: its title, then the add
FavTitle ==
    /\ pc = "fav_title"
    /\ \E o \in Replies(player, {"null"} \cup
                          { t.title : t \in { x \in TRACKS : x.url = frame.track.url } }) :
          LET title_resp == get_ipc_property("media-title", o)
          IN  /\ Issue(title_resp)
              /\ IF frame.track.url # "" /\ HasData(title_resp.ret)
                 THEN FavAppend("fav_add", frame.number, load_favorites(favFile),
                                Track(title_resp.ret.data, frame.track.url))
                 ELSE /\ Return("fav_add", <<"No track selected or playing">>)
                      /\ UNCHANGED favFile
    /\ UNCHANGED <<resultsFile, historyFile, probe, spawns, fault>>
    /\ UNCHANGED <<updateFile, clock, requests>>

\* The invocation's process ends; the next one starts with fresh locals.
Exit ==
    /\ pc = "done"
    /\ pc' = "idle"
    /\ frame' = NoFrame
    /\ probe' = NoCall
    /\ lastCall' = NoCall
    /\ calls' = <<>>
    /\ spawns' = <<>>
    /\ out' = <<>>
    /\ loaded' = NothingLoaded
    /\ fault' = "none"
    /\ UNCHANGED <<resultsFile, historyFile, favFile, player>>
    /\ UNCHANGED <<updateFile, clock, requests>>

(***************************************************************************)
(* Environment                                                             *)
(***************************************************************************)
\* A spawned mpv (commands.py:127, not awaited) starts listening on the
\* endpoint given by --input-ipc-server.
PlayerReady ==
    /\ pc = "idle"
    /\ player = "starting"
    /\ player' = "listening"
    /\ UNCHANGED <<resultsFile, historyFile, favFile, pc, frame, probe, lastCall,
                   calls, loaded, spawns, out, fault>>
    /\ UNCHANGED <<updateFile, clock, requests>>

\* The player goes away by itself.
PlayerExit ==
    /\ pc = "idle"
    /\ player = "listening"
    /\ player' = "absent"
    /\ UNCHANGED <<resultsFile, historyFile, favFile, pc, frame, probe, lastCall,
                   calls, loaded, spawns, out, fault>>
    /\ UNCHANGED <<updateFile, clock, requests>>

\* The history document stops being parseable between two invocations
\* (the case storage.py:8-13 provides for); its entries stay in the file.
HistoryDamaged ==
    /\ pc = "idle"
    /\ historyFile.st = "ok"
    /\ historyFile' = [historyFile EXCEPT !.st = "corrupt"]
    /\ UNCHANGED <<resultsFile, favFile, player, pc, frame, probe, lastCall,
                   calls, loaded, spawns, out, fault>>
    /\ UNCHANGED <<updateFile, clock, requests>>

Next ==
    \/ \E tool \in {"raises", "nonzero", "ok"}, lines \in SearchOutputs, play \in BOOLEAN :
          cmd_search(tool, lines, play)
    \/ \E number \in Numbers : cmd_play(number)
    \/ \E number \in Numbers : cmd_add(number)
    \/ cmd_stop
    \/ cmd_fav_list
    \/ \E target \in Targets : cmd_fav_add(target)
    \/ \E target \in Targets : cmd_fav_remove(target)
    \/ \E target \in Targets : cmd_fav_play(target)
    \/ Probe
    \/ Replace
    \/ Unpause
    \/ AppendNext
    \/ Spawn
    \/ AddLoad
    \/ FavPath
    \/ FavTitle
    \/ Exit
    \/ PlayerReady
    \/ PlayerExit
    \/ HistoryDamaged

Spec == Init /\ [][Next]_vars

(***************************************************************************)
(* play_tracks on its own: any batch of up to MaxBatch tracks, called with *)
(* or without an enclosing `except Exception` (cmd_play / cmd_fav).        *)
(***************************************************************************)
\* commands.py:74-83
play_tracks(tracks, guarded) ==
    /\ pc = "idle"
    /\ IF tracks = <<>>
       THEN Return("play_tracks", <<>>) /\ UNCHANGED <<historyFile, probe>>
       ELSE PlayTracksEnter("play_tracks", 0, tracks, guarded, 0, <<>>)
    /\ UNCHANGED <<resultsFile, favFile, player, lastCall, calls, loaded, spawns, fault>>
    /\ UNCHANGED <<updateFile, clock, requests>>

NextBatch ==
    \/ \E tracks \in SeqsUpTo(TRACKS, MaxBatch), guarded \in BOOLEAN :
          play_tracks(tracks, guarded)
    \/ Probe
    \/ Replace
    \/ Unpause
    \/ AppendNext
    \/ Spawn
    \/ Exit
    \/ PlayerReady
    \/ PlayerExit

SpecBatch == Init /\ [][NextBatch]_vars

(***************************************************************************)
(* The favorites commands over the wider catalogue.                        *)
(***************************************************************************)
NextFav ==
    \/ \E lines \in FavSearchOutputs : cmd_search("ok", lines, FALSE)
    \/ cmd_fav_list
    \/ \E target \in Targets \ {NoTarget} : cmd_fav_add(target)
    \/ \E target \in Targets : cmd_fav_remove(target)
    \/ Exit

SpecFav == Init /\ [][NextFav]_vars

(***************************************************************************)
(* The queue listing (cmd_queue) and its title resolver.  Urls, file names *)
(* and titles are texts: tuples of one-character strings, so that strip,   *)
(* split and slicing are computed as utils.py and commands.py compute them.*)
(***************************************************************************)
MaxCached == 1
MaxQueue == 1

\* utils.py:67,73: the slice [:11]
IdLen == 11

Rep(c, n) == [k \in 1..n |-> c]

\* str.find + 1: the first position at which pat occurs in s, 0 when none
Find(s, pat) ==
    LET at == { i \in 1..(Len(s) - Len(pat) + 1) :
                   \A j \in 1..Len(pat) : s[i + j - 1] = pat[j] }
    IN  IF at = {} THEN 0 ELSE CHOOSE i \in at : \A j \in at : i <= j

Contains(s, pat) == Find(s, pat) # 0

\* s.split(pat)[0] and what follows the first pat
Before(s, pat) == IF Contains(s, pat) THEN SubSeq(s, 1, Find(s, pat) - 1) ELSE s
After(s, pat) == SubSeq(s, Find(s, pat) + Len(pat), Len(s))

\* s.split(pat)[1], for an s that contains pat
Split1(s, pat) == Before(After(s, pat), pat)

\* s[:n]
Take(s, n) == SubSeq(s, 1, IF Len(s) < n THEN Len(s) ELSE n)

\* s.strip(chars)
RECURSIVE Strip(_, _)
Strip(s, chars) ==
    IF s = <<>> THEN s
    ELSE IF Head(s) \in chars THEN Strip(Tail(s), chars)
    ELSE IF s[Len(s)] \in chars THEN Strip(SubSeq(s, 1, Len(s) - 1), chars)
    ELSE s

VParam == <<"v", "=">>
Amp == <<"&">>
ShortHost == <<"y", "o", "u", "t", "u", ".", "b", "e", "/">>
Unknown == <<"U", "n", "k", "n", "o", "w", "n">>

NoId == [none |-> TRUE, id |-> <<>>]
Id(x) == [none |-> FALSE, id |-> x]

\* `if vid`: neither None nor ""
HasId(vid) == ~vid.none /\ vid.id # <<>>

\* Mutant: everything after "v=" (or the short host) is taken as the id.
extract_video_id_tail(url) ==
    IF url = <<>> THEN NoId
    ELSE IF Contains(url, VParam) THEN Id(After(url, VParam))
    ELSE IF Contains(url, ShortHost) THEN Id(After(url, ShortHost))
    ELSE NoId

\* utils.py:61-76
extract_video_id(url) ==
    IF url = <<>> THEN NoId
    ELSE IF Contains(url, VParam)
    THEN Id(Take(Before(Split1(url, VParam), Amp), IdLen))
    ELSE IF Contains(url, ShortHost)
    THEN Id(Take(Split1(url, ShortHost), IdLen))
    ELSE NoId

\* dict assignment map[k] = v
Put(map, k, v) == [x \in (DOMAIN map) \cup {k} |-> IF x = k THEN v ELSE map[x]]

EmptyMaps == [url_map |-> <<>>, id_map |-> <<>>]

\* commands.py:234-241
RECURSIVE load_into_maps(_, _)
load_into_maps(maps, items) ==
    IF items = <<>> THEN maps
    ELSE LET url == Strip(Head(items).url, {"|", " "})
             title == Head(items).title
             vid == extract_video_id(url)
             byUrl == [maps EXCEPT !.url_map = Put(@, url, title)]
         IN  load_into_maps(IF HasId(vid)
                            THEN [byUrl EXCEPT !.id_map = Put(@, vid.id, title)]
                            ELSE byUrl,
                            Tail(items))

\* commands.py:243-253: what json.load gives for a document; a missing or
\* unparseable one adds nothing to the maps.
Cached(file) == IF file.st = "ok" THEN file.items ELSE <<>>

\* Mutant: History is merged before Results.
MergedMapsHistoryFirst(rf, hf) ==
    load_into_maps(load_into_maps(EmptyMaps, Cached(hf)), Cached(rf))

\* commands.py:231-253: Results first, History second
MergedMaps(rf, hf) ==
    load_into_maps(load_into_maps(EmptyMaps, Cached(rf)), Cached(hf))

\* Mutant: the VideoID map is asked before the URL map.
ResolveTitleIdFirst(item, maps) ==
    IF item.title # <<>> THEN item.title
    ELSE IF HasId(extract_video_id(item.filename))
            /\ extract_video_id(item.filename).id \in DOMAIN maps.id_map
    THEN maps.id_map[extract_video_id(item.filename).id]
    ELSE IF item.filename \in DOMAIN maps.url_map
    THEN maps.url_map[item.filename]
    ELSE IF item.filename # <<>> THEN item.filename ELSE Unknown

\* Mutant: a cached title is preferred to the inline one.
ResolveTitleCacheFirst(item, maps) ==
    IF item.filename \in DOMAIN maps.url_map THEN maps.url_map[item.filename]
    ELSE IF item.title # <<>> THEN item.title
    ELSE IF HasId(extract_video_id(item.filename))
            /\ extract_video_id(item.filename).id \in DOMAIN maps.id_map
    THEN maps.id_map[extract_video_id(item.filename).id]
    ELSE IF item.filename # <<>> THEN item.filename ELSE Unknown

\* Mutant: an unmatched entry is always shown as "Unknown".
ResolveTitleNoFilename(item, maps) ==
    IF item.title # <<>> THEN item.title
    ELSE IF item.filename \in DOMAIN maps.url_map
    THEN maps.url_map[item.filename]
    ELSE IF HasId(extract_video_id(item.filename))
            /\ extract_video_id(item.filename).id \in DOMAIN maps.id_map
    THEN maps.id_map[extract_video_id(item.filename).id]
    ELSE Unknown

\* commands.py:259-271: inline title, URL map, VideoID map, file name, "Unknown"
ResolveTitle(item, maps) ==
    LET url == item.filename
        vid == extract_video_id(url)
    IN  IF item.title # <<>> THEN item.title
        ELSE IF url \in DOMAIN maps.url_map THEN maps.url_map[url]
        ELSE IF HasId(vid) /\ vid.id \in DOMAIN maps.id_map THEN maps.id_map[vid.id]
        ELSE IF url # <<>> THEN url ELSE Unknown

\* Two 11-character ids and the forms a url of a video takes.
ID1 == Rep("a", IdLen)
ID2 == Rep("a", IdLen - 1) \o <<"b">>
VideoIds == {ID1, ID2}

Watch(id) == <<"h", "/", "w", "?", "v", "=">> \o id
WithList(url) == url \o <<"&", "l", "=", "f">>
Short(id) == ShortHost \o id
Padded(url) == <<"|", " ">> \o url \o <<" ", "|">>

\* The same urls are cached by the last search under the title S1 and by
\* History, from an earlier search, under the title S2.
CachedUrls == { Watch(ID1), WithList(Watch(ID1)), Padded(Watch(ID2)) }
RTRACKS == { Track(<<"S", "1">>, u) : u \in CachedUrls }
HTRACKS == { Track(<<"S", "2">>, u) : u \in CachedUrls }

\* The documents cmd_queue may find: History holds one entry per url.
ResultsDocs ==
    { Missing, [st |-> "corrupt", items |-> <<>>] }
    \cup { Written(l) : l \in SeqsUpTo(RTRACKS, MaxCached) }
HistoryDocs ==
    { Missing, [st |-> "corrupt", items |-> <<>>] }
    \cup { Written(l) : l \in { x \in SeqsUpTo(HTRACKS, MaxCached) : UniqueUrls(x) } }

\* Playlist entries as mpv reports them: title absent (<<>>) or inline.
Filenames ==
    { <<>>, Watch(ID1), WithList(Watch(ID1)), Short(ID1), Watch(ID2),
      <<"a", ".", "m", "p", "3">> }
QueueEntry(f, t) == [filename |-> f, title |-> t, current |-> FALSE]
QueueEntries ==
    { QueueEntry(f, <<>>) : f \in Filenames } \cup { QueueEntry(Watch(ID1), <<"T">>) }

\* The playlist with its c-th entry (if any) marked as the current one.
MarkCurrent(list, c) ==
    [k \in 1..Len(list) |-> [list[k] EXCEPT !.current = (k = c)]]
Playlists ==
    { MarkCurrent(l, c) : l \in SeqsUpTo(QueueEntries, MaxQueue), c \in 0..MaxQueue }

\* What the player may answer to get_property playlist.
QueueReplies(p) ==
    (IF p = "absent" THEN {}
     ELSE [kind : {"success"}, data : Playlists]
          \cup [kind : ConnectedKinds \ {"success"}, data : {<<>>}])
    \cup [kind : AbsentKinds, data : {<<>>}]

\* commands.py:255-273: one printed line per playlist entry
QueueLines(playlist, maps) ==
    [k \in 1..Len(playlist) |->
        [prefix |-> IF playlist[k].current THEN "-> " ELSE "   ",
         n      |-> k,
         title  |-> ResolveTitle(playlist[k], maps)]]

\* commands.py:220-273
cmd_queue ==
    /\ pc = "idle"
    /\ LET maps == MergedMaps(resultsFile, historyFile)
       IN  \E o \in QueueReplies(player) :
              LET resp == get_ipc_property("playlist", o)
              IN  /\ Issue(resp)
                  /\ IF ~Truthy(resp.ret) \/ resp.ret.error # "success"
                     THEN Return("queue", <<"Queue is empty (or player not running)">>)
                     ELSE IF resp.ret.data = <<>>
                     THEN Return("queue", <<"Queue is empty">>)
                     ELSE Return("queue", <<"Current Queue">>
                                             \o QueueLines(resp.ret.data, maps))
    /\ UNCHANGED <<resultsFile, historyFile, favFile, probe, spawns, fault>>
    /\ UNCHANGED <<updateFile, clock, requests>>

InitQueue ==
    /\ resultsFile \in ResultsDocs
    /\ historyFile \in HistoryDocs
    /\ favFile = Missing
    /\ player = "listening"
    /\ pc = "idle"
    /\ frame = NoFrame
    /\ probe = NoCall
    /\ lastCall = NoCall
    /\ calls = <<>>
    /\ spawns = <<>>
    /\ out = <<>>
    /\ loaded = NothingLoaded
    /\ fault = "none"
    /\ updateFile = NoCache
    /\ clock = Window
    /\ requests = <<>>

NextQueue ==
    \/ cmd_queue
    \/ Exit

SpecQueue == InitQueue /\ [][NextQueue]_vars

(***************************************************************************)
(* Properties                                                              *)
(***************************************************************************)
\* play_tracks is running or has run in this invocation.
InPlay == frame.tracks # <<>>

\* The calls play_tracks itself made.
PlayCalls == SubSeq(calls, frame.base + 1, Len(calls))

ProbeRequest == <<"get_property", "idle-active">>

\* probe, loadfile(t1, replace), set_property(pause, false), loadfile(ti, append)...
AttachedCalls(tracks) ==
    << ProbeRequest,
       <<"loadfile", tracks[1].url, "replace">>,
       <<"set_property", "pause", "false">> >>
    \o [k \in 1..(Len(tracks) - 1) |-> <<"loadfile", tracks[k + 1].url, "append">>]

\* C1: with the probe answered "success", play_tracks issues exactly the
\* probe, loadfile(t1, replace), set_property(pause, false) and then
\* loadfile(ti, append) for i = 2..n in input order; it spawns nothing, and
\* nothing is issued before the probe.
C1_AttachedCalls ==
    InPlay =>
      /\ probe = NoCall => PlayCalls = <<>> /\ spawns = <<>>
      /\ probe # NoCall => PlayCalls[1] = ProbeRequest
      /\ IsSuccess(probe.ret) =>
            /\ IsPrefix(PlayCalls, AttachedCalls(frame.tracks))
            /\ pc = "done" => PlayCalls = AttachedCalls(frame.tracks)
            /\ spawns = <<>>

C1_Witness ==
    /\ pc = "done"
    /\ IsSuccess(probe.ret)
    /\ Len(frame.tracks) = 3
    /\ frame.tracks[2].url # frame.tracks[3].url
    /\ Len(PlayCalls) = 5

\* C2 as claimed: with the probe answered Absent, play_tracks ends having
\* spawned exactly once, with the urls of the batch in input order after the
\* fixed flags and the endpoint, and having made no call after the probe.
C2_Original ==
    (InPlay /\ pc = "done" /\ probe.env \in AbsentKinds) =>
      /\ Len(spawns) = 1
      /\ spawns[1] = <<"mpv">> \o FixedFlags \o Urls(frame.tracks)
      /\ PlayCalls = <<ProbeRequest>>

\* C2 as amended: the same when get_mpv_path finds the player binary; when it
\* does not, the invocation exits there, having spawned nothing.  In both
\* cases no call follows the probe.
C2_AbsentSpawn ==
    (InPlay /\ probe.env \in AbsentKinds) =>
      /\ PlayCalls = <<ProbeRequest>>
      /\ pc # "done" => spawns = <<>>
      /\ (pc = "done" /\ fault # "sysexit") =>
            /\ Len(spawns) = 1
            /\ SubSeq(spawns[1], 1, 1 + Len(FixedFlags)) = <<"mpv">> \o FixedFlags
            /\ SubSeq(spawns[1], 2 + Len(FixedFlags), Len(spawns[1]))
                  = [k \in 1..Len(frame.tracks) |-> frame.tracks[k].url]
      /\ (pc = "done" /\ fault = "sysexit") => spawns = <<>>

C2_Witness ==
    /\ pc = "done"
    /\ probe.env \in AbsentKinds
    /\ fault = "none"
    /\ Len(frame.tracks) = 3
    /\ frame.tracks[1].url # frame.tracks[2].url
    /\ Len(spawns) = 1
    /\ player = "starting"

\* C3 as claimed: a player is spawned only on an Absent probe; a probe that
\* reached a player and got an empty line, a line that is not JSON, or a
\* status other than "success" ends play_tracks with no spawn and no loadfile.
C3_Original ==
    InPlay =>
      /\ spawns # <<>> => probe.env \in AbsentKinds
      /\ probe.env \in {"garbage", "eof", "error"} =>
            /\ spawns = <<>>
            /\ \A k \in 1..Len(PlayCalls) : PlayCalls[k][1] # "loadfile"

\* The step calls save_to_history(frame'.track): play_tracks is entered
\* (commands.py:83) or cmd_add saves (commands.py:190).
SaveStep == pc' # pc /\ pc' \in {"probe", "add_load"}

\* What load_history / load_favorites give for the stored documents.
HistoryList == load_history(historyFile)
FavList == load_favorites(favFile)

\* C4: a call made while nobody listens at the endpoint (no endpoint, or
\* connection refused) returns None, raises nothing and writes no request,
\* for send_ipc_command and get_ipc_property alike.
C4_AbsentReturnsNone ==
    lastCall.env \in AbsentKinds =>
      /\ lastCall.ret = None
      /\ ~lastCall.raised
      /\ ~lastCall.wrote

C4_Witness ==
    /\ lastCall.fn = "send_ipc_command"
    /\ lastCall.env = "nofile"
    /\ lastCall.req[1] = "loadfile"
    /\ lastCall.ret = None

\* C5 as claimed: what a call returns after an I/O or parse failure on a
\* channel it reached differs from what the same call returns when the
\* channel is unreachable.
C5_Original ==
    /\ (lastCall.fn = "send_ipc_command" /\ lastCall.env \in {"oserror", "garbage"}) =>
          lastCall.ret # send_ipc_command(lastCall.req, [kind |-> "refused", data |-> "null"]).ret
    /\ (lastCall.fn = "get_ipc_property" /\ lastCall.env \in {"oserror", "garbage", "eof"}) =>
          lastCall.ret # get_ipc_property(lastCall.req[2], [kind |-> "refused", data |-> "null"]).ret

\* C6: History as loaded never holds two entries with one url, and a save
\* whose url is already present leaves its length as it was.
C6_HistoryUnique ==
    /\ [](UniqueUrls(HistoryList))
    /\ [][(SaveStep /\ HasUrl(HistoryList, frame'.track.url))
             => Len(HistoryList') = Len(HistoryList)]_vars

C6_Witness ==
    /\ pc = "probe"
    /\ frame.cmd = "add"
    /\ Len(HistoryList) = 2
    /\ HasUrl(HistoryList, frame.track.url)

\* C7: first write wins: saving a track whose url History already holds
\* leaves that entry, title included, as the only one for the url; a track
\* with a new url is appended as given.
C7_FirstWriteWins ==
    [][SaveStep =>
         /\ \A k \in 1..Len(HistoryList) :
               HistoryList[k].url = frame'.track.url =>
                 /\ k <= Len(HistoryList')
                 /\ HistoryList'[k] = HistoryList[k]
                 /\ Cardinality({ j \in 1..Len(HistoryList') :
                                     HistoryList'[j].url = frame'.track.url }) = 1
         /\ ~HasUrl(HistoryList, frame'.track.url) =>
               HistoryList' = HistoryList \o <<frame'.track>>]_vars

C7_Witness ==
    /\ pc = "probe"
    /\ \E k \in 1..Len(HistoryList) :
          /\ HistoryList[k].url = frame.track.url
          /\ HistoryList[k].title # frame.track.title

\* C8 as claimed: the entries of the History document at any time are a
\* prefix of its entries at any later time, also when the document is found
\* unparseable on load.
C8_Original == [][IsPrefix(historyFile.items, historyFile'.items)]_vars

\* C8 as amended: that holds for every step taken while the document is
\* parseable or missing; a save that finds it unparseable rewrites it as the
\* one-entry list of the saved track, and nothing else touches it.
C8_AppendOnlyWhileParseable ==
    [][/\ historyFile.st # "corrupt" =>
             IsPrefix(historyFile.items, historyFile'.items)
       /\ historyFile.st = "corrupt" =>
             \/ historyFile' = historyFile
             \/ SaveStep /\ historyFile' = [st |-> "ok", items |-> <<frame'.track>>]]_vars

C8_Witness ==
    /\ pc = "probe"
    /\ ~frame.unreadable
    /\ historyFile.st = "ok"
    /\ Len(historyFile.items) = 2
    /\ historyFile.items[2] = frame.track

\* C9 as claimed: once play <n>, add <n> or fav add of a track that passed
\* validation has returned, History holds an entry with the track's url.
C9_Original ==
    (/\ pc = "done"
     /\ \/ frame.cmd \in {"play", "add"} /\ frame.track.url # ""
        \/ /\ frame.cmd = "fav_add"
           /\ out \in {<<"Added to favorites">>, <<"Already in favorites">>})
    => HasUrl(HistoryList, frame.track.url)

\* The step completes a `fav add` whose track_to_add is frame'.track.
FavAddStep ==
    /\ pc # "done"
    /\ pc' = "done"
    /\ frame'.cmd = "fav_add"
    /\ frame'.track.url # ""

\* C10: Favorites as loaded never holds two entries with one url, and adding
\* a track whose url is already a favorite leaves the document as it was.
C10_FavoritesUnique ==
    /\ [](UniqueUrls(FavList))
    /\ [][(FavAddStep /\ HasUrl(FavList, frame'.track.url))
             => favFile' = favFile]_vars

C10_Witness ==
    /\ pc = "done"
    /\ frame.cmd = "fav_add"
    /\ Len(FavList) = 2
    /\ \E k \in 1..Len(FavList) :
          /\ FavList[k].url = frame.track.url
          /\ FavList[k].title # frame.track.title
          /\ frame.track.title # ""

\* The step is a `fav remove <n>` with a numeric n, kept in frame'.number.
FavRemoveStep ==
    /\ pc = "idle"
    /\ pc' = "done"
    /\ frame'.cmd = "fav_remove"
    /\ out' \in {<<"Removed">>, <<"Invalid index">>}

\* C11: fav remove n with 1 <= n <= L rewrites Favorites as the list without
\* its n-th entry: length L-1, the entries before n as they were, the entries
\* after n each one place down.
C11_RemoveDeletesNth ==
    [][(FavRemoveStep /\ 1 <= frame'.number /\ frame'.number <= Len(FavList)) =>
         /\ favFile'.st = "ok"
         /\ Len(FavList') = Len(FavList) - 1
         /\ \A k \in 1..(frame'.number - 1) : FavList'[k] = FavList[k]
         /\ \A k \in frame'.number..Len(FavList') : FavList'[k] = FavList[k + 1]
         /\ out' = <<"Removed">>]_vars

\* `fav remove 2` has just taken the middle entry (the one for u2) out of a
\* three-entry list: entries before and after it are left.
C11_Witness ==
    /\ pc = "done"
    /\ frame.cmd = "fav_remove"
    /\ frame.number = 2
    /\ out = <<"Removed">>
    /\ FavList = <<Track("A", "u1"), Track("D", "u3")>>

\* C12: fav remove n with n < 1 or n > L reports an invalid index and leaves
\* the Favorites document as it was.
C12_RemoveOutOfRange ==
    [][(FavRemoveStep /\ (frame'.number < 1 \/ frame'.number > Len(FavList))) =>
         /\ favFile' = favFile
         /\ out' = <<"Invalid index">>
         /\ fault' = "none"]_vars

C12_Witness ==
    /\ pc = "done"
    /\ frame.cmd = "fav_remove"
    /\ out = <<"Invalid index">>
    /\ Len(FavList) = 3
    /\ frame.number = Len(FavList) + 1

\* cmd_queue has printed the listing of the playlist it was given.
Listed ==
    /\ pc = "done"
    /\ frame.cmd = "queue"
    /\ IsSuccess(lastCall.ret)
    /\ lastCall.ret.data # <<>>

\* The k-th playlist entry and the title printed for it.
Entry(k) == lastCall.ret.data[k]
Shown(k) == out[k + 1].title

\* The key under which load_into_maps files a cached url.
Key(url) == Strip(url, {"|", " "})

\* The forms a url of the video with this id takes; two texts are urls of
\* the same video when they are forms of one id.
Forms(id) == { Watch(id), WithList(Watch(id)), Short(id) }
SameVideo(f, url) == \E id \in VideoIds : f \in Forms(id) /\ Key(url) \in Forms(id)

\* Titles cached for exactly this file name / for the video it names.
UrlTitles(list, f) == { list[j].title : j \in { i \in 1..Len(list) : Key(list[i].url) = f } }
VideoTitles(list, f) ==
    { list[j].title : j \in { i \in 1..Len(list) : SameVideo(f, list[i].url) } }

ResultsList == Cached(resultsFile)
CachedList == Cached(resultsFile) \o Cached(historyFile)

C14_VideoIdFallback ==
    Listed =>
      \A k \in 1..Len(lastCall.ret.data) :
         (/\ Entry(k).title = <<>>
          /\ UrlTitles(CachedList, Entry(k).filename) = {}
          /\ VideoTitles(CachedList, Entry(k).filename) # {})
            => Shown(k) \in VideoTitles(CachedList, Entry(k).filename)

C14_Witness ==
    /\ Listed
    /\ Entry(1).title = <<>>
    /\ Entry(1).filename = Watch(ID1)
    /\ ResultsList = <<>>
    /\ HistoryList = <<Track(<<"S", "2">>, WithList(Watch(ID1)))>>
    /\ Shown(1) = <<"S", "2">>

\* C15: an entry without inline title that matches no cached url and no
\* cached video is shown as its file name, or as "Unknown" when the file
\* name is empty.
C15_RawFallback ==
    Listed =>
      \A k \in 1..Len(lastCall.ret.data) :
         (/\ Entry(k).title = <<>>
          /\ UrlTitles(CachedList, Entry(k).filename) = {}
          /\ VideoTitles(CachedList, Entry(k).filename) = {})
            => Shown(k) = IF Entry(k).filename # <<>>
                          THEN Entry(k).filename ELSE Unknown

C15_Witness ==
    /\ Listed
    /\ Entry(1).title = <<>>
    /\ Entry(1).filename = Watch(ID2)
    /\ HistoryList = <<Track(<<"S", "2">>, Watch(ID1))>>
    /\ Shown(1) = Watch(ID2)

C17_QueueOrder ==
    (InPlay /\ IsSuccess(probe.ret) /\ ~loaded.skipped) =>
      /\ IsPrefix(loaded.urls, Urls(frame.tracks))
      /\ loaded.urls # <<>> => loaded.replaced
      /\ pc = "done" =>
            /\ loaded.replaced
            /\ loaded.urls = [k \in 1..Len(frame.tracks) |-> frame.tracks[k].url]

C17_Witness ==
    /\ pc = "done"
    /\ IsSuccess(probe.ret)
    /\ ~loaded.skipped
    /\ Len(frame.tracks) = 3
    /\ frame.tracks[1].url # frame.tracks[2].url
    /\ frame.tracks[2].url # frame.tracks[3].url
    /\ Len(loaded.urls) = 3

\* Number of occurrences of op among the operations t of a connection.
Count(t, op) == Cardinality({ k \in 1..Len(t) : t[k] = op })

\* Connections open after the operations t.
OpenAfter(t) == Count(t, "connect") - Count(t, "close")

\* C18: a call either fails to connect, and then has no connection, or opens
\* one connection of its own, writes one request to it, reads at most one
\* line after the write, and closes it as its last operation, whatever the
\* outcome (success, error status, empty line, unparseable line, I/O error).
C18_OneRequestPerConnection ==
    lastCall.fn # "" =>
      \/ /\ lastCall.env \in AbsentKinds
         /\ lastCall.conn = <<"connect failed">>
      \/ /\ lastCall.env \in ConnectedKinds
         /\ lastCall.conn[1] = "connect"
         /\ Count(lastCall.conn, "connect") = 1
         /\ lastCall.conn[2] = "write"
         /\ Count(lastCall.conn, "write") = 1
         /\ Count(lastCall.conn, "readline") <= 1
         /\ lastCall.conn[Len(lastCall.conn)] = "close"
         /\ Count(lastCall.conn, "close") = 1

C18_Witness ==
    /\ lastCall.fn = "get_ipc_property"
    /\ lastCall.env = "garbage"
    /\ lastCall.ret = None
    /\ lastCall.conn = <<"connect", "write", "flush", "readline", "close">>

\* C19: a step of an invocation starts at most one call, and when it starts
\* one, the call before it has returned (raised nothing) and left no
\* connection open; the new call has returned by the end of the step.
C19_OneCallAtATime ==
    [][calls' # calls =>
         /\ \/ calls' = <<>>
            \/ /\ Len(calls') = Len(calls) + 1
               /\ SubSeq(calls', 1, Len(calls)) = calls
               /\ calls'[Len(calls')] = lastCall'.req
               /\ ~lastCall'.raised
               /\ OpenAfter(lastCall'.conn) = 0
         /\ ~lastCall.raised
         /\ OpenAfter(lastCall.conn) = 0]_vars

C19_Witness ==
    /\ pc = "append"
    /\ Len(calls) = 4
    /\ lastCall.req[3] = "append"
    /\ lastCall.env = "oserror"
    /\ OpenAfter(lastCall.conn) = 0

\* play_tracks got past the probe to the launch of a player and the launch
\* failed: no binary, or Popen raised.
LaunchFailed ==
    /\ pc = "done"
    /\ InPlay
    /\ probe # NoCall
    /\ ~IsSuccess(probe.ret)
    /\ \A k \in 1..Len(out) : out[k] # "Player started in background"

\* C20 as claimed: after a failed launch the command has made at most one
\* spawn attempt, has printed one message about the failure, and has ended
\* without an uncaught exception.  (The sys.exit(1) of get_mpv_path, taken
\* after its message, is not held against the claim here.)
C20_Original ==
    LaunchFailed =>
      /\ Len(spawns) <= 1
      /\ fault # "exception"
      /\ Cardinality({ k \in 1..Len(out) :
                          out[k] \in {"Error playing", "MPV is required"} }) = 1

(***************************************************************************)
(* Results across searches                                                 *)
(***************************************************************************)
\* The step taken is a search whose tool ran and printed no (title, url) line.
EmptySearchStep ==
    /\ pc = "idle"
    /\ frame'.cmd = "search"
    /\ \E k \in 1..Len(out') : out'[k] = "No results found"

\* C21 (as stated): Results is wholly replaced on each search: after a search
\* that produces zero pairs, Results holds no entry of an earlier search.
C21_Original ==
    [][EmptySearchStep =>
          ~(resultsFile'.st = "ok" /\ resultsFile'.items # <<>>)]_vars

(***************************************************************************)
(* add against a running player                                            *)
(***************************************************************************)
\* The step is a call of an `add <n>` invocation that reaches a running player.
AddCallStep ==
    /\ frame'.cmd = "add"
    /\ Len(calls') = Len(calls) + 1
    /\ lastCall'.env \in ConnectedKinds

\* C28 (as stated): add <n> against a running player first issues
\* loadfile(url, "append-play") and never issues a loadfile in replace mode.
C28_Original ==
    [][AddCallStep =>
          /\ calls'[1] = LoadFile(frame'.track.url, "append-play")
          /\ ~(lastCall'.req[1] = "loadfile" /\ lastCall'.req[3] = "replace")]_vars

(***************************************************************************)
(* Out-of-range ordinals                                                   *)
(***************************************************************************)
\* n is a number given to the command that is no position of list.
OutOfRange(n, list) == n >= 0 /\ (n < 1 \/ n > Len(list))

\* The step is the first one of an invocation of one of cmds.
Begins(cmds) == pc = "idle" /\ pc' # "idle" /\ frame'.cmd \in cmds

\* The step prints msg and does nothing else.
OnlyReports(msg) ==
    /\ out' = <<msg>>
    /\ pc' = "done"
    /\ fault' = "none"
    /\ calls' = <<>>
    /\ spawns' = <<>>
    /\ UNCHANGED <<resultsFile, historyFile, favFile, player>>

\* C22: play <n> and add <n> with n outside 1..|Results|, and fav add, fav
\* play and fav remove with an index outside the list they index, print a
\* message and leave Results, History and Favorites unchanged, issue no
\* control-channel call and spawn no player.
C22_OutOfRangeOnlyReports ==
    [][/\ (/\ Begins({"play", "add"})
           /\ resultsFile.st = "ok"
           /\ OutOfRange(frame'.number, resultsFile.items))
          => OnlyReports("Invalid selection number")
       /\ (/\ Begins({"fav_add"})
           /\ resultsFile.st = "ok"
           /\ OutOfRange(frame'.number, resultsFile.items))
          => OnlyReports("Invalid index")
       /\ (/\ Begins({"fav_play", "fav_remove"})
           /\ OutOfRange(frame'.number, load_favorites(favFile)))
          => \/ OnlyReports("Invalid index")
             \/ OnlyReports("No favorites to play")]_vars

\* add <n> with n one past the end of a non-empty Results has returned.
C22_Witness ==
    /\ pc = "done"
    /\ frame.cmd = "add"
    /\ resultsFile.st = "ok"
    /\ resultsFile.items # <<>>
    /\ frame.number = Len(resultsFile.items) + 1
    /\ out[Len(out)] = "Invalid selection number"

(***************************************************************************)
(* The attached branch drops every result                                  *)
(***************************************************************************)
\* C27: in the attached branch of play_tracks each step after the probe
\* issues the next request of the fixed sequence exactly once, whatever the
\* calls before it came to, prints nothing and spawns nothing; the branch
\* ends only with the append of the last track.
C27_AttachedIgnoresResults ==
    [][(InPlay /\ pc \in {"replace", "unpause", "append"}) =>
          LET n == Len(PlayCalls)
              all == AttachedCalls(frame.tracks)
          IN  /\ n < Len(all)
              /\ calls' = Append(calls, all[n + 1])
              /\ (pc' = "done") = (n + 1 = Len(all))
              /\ out' = out
              /\ spawns' = spawns]_vars

\* A batch of three ended with every request issued although the replace was
\* not applied and a later append was.
C27_Witness ==
    /\ pc = "done"
    /\ IsSuccess(probe.ret)
    /\ Len(frame.tracks) = 3
    /\ PlayCalls = AttachedCalls(frame.tracks)
    /\ ~loaded.replaced
    /\ loaded.urls # <<>>

(***************************************************************************)
(* extract_video_id on its own                                             *)
(***************************************************************************)
\* How many characters longer than IdLen the identifiers tried may be.
MaxExtra == 1

\* Urls with a v= parameter, with the short host, and with neither; the
\* identifier is of any length up to IdLen + MaxExtra and may be followed by
\* another parameter.
UrlHeads ==
    { <<"h", "/", "w", "?">> \o VParam,
      <<"h", "/">> \o ShortHost,
      <<"h", "/", "w", "?", "x", "=">> }
UrlIds == { Rep("a", n) : n \in 0..(IdLen + MaxExtra) }
UrlTails == { <<>>, <<"&", "l", "=", "f">>, <<"?", "t", "=", "1">> }
UrlInputs == { h \o i \o t : h \in UrlHeads, i \in UrlIds, t \in UrlTails }

InitVideoId ==
    /\ \E url \in UrlInputs : frame = [NoFrame EXCEPT !.track = Track(<<>>, url)]
    /\ resultsFile = Missing
    /\ historyFile = Missing
    /\ favFile = Missing
    /\ player = "absent"
    /\ pc = "idle"
    /\ probe = NoCall
    /\ lastCall = NoCall
    /\ calls = <<>>
    /\ spawns = <<>>
    /\ out = <<>>
    /\ loaded = NothingLoaded
    /\ fault = "none"
    /\ updateFile = NoCache
    /\ clock = Window
    /\ requests = <<>>

\* utils.py:61-76 applied to the url drawn
VideoIdOf ==
    /\ pc = "idle"
    /\ pc' = "done"
    /\ frame' = [frame EXCEPT !.cmd = "extract_video_id"]
    /\ out' = <<extract_video_id(frame.track.url)>>
    /\ UNCHANGED <<resultsFile, historyFile, favFile, player, probe, lastCall,
                   calls, spawns, loaded, fault>>
    /\ UNCHANGED <<updateFile, clock, requests>>

NextVideoId == VideoIdOf

SpecVideoId == InitVideoId /\ [][NextVideoId]_vars

\* C29 (as stated): extract_video_id returns no identifier or an identifier
\* of exactly IdLen characters.
C29_Original ==
    (pc = "done" /\ frame.cmd = "extract_video_id") =>
        (out[1].none \/ Len(out[1].id) = IdLen)

(***************************************************************************)
(* Inline titles                                                           *)
(***************************************************************************)
\* C30: a playlist entry with a non-empty inline title is shown under that
\* title, whatever Results and History cache for its file name or video.
C30_InlineTitleWins ==
    Listed =>
      \A k \in 1..Len(lastCall.ret.data) :
         Entry(k).title # <<>> => Shown(k) = Entry(k).title

\* The entry's file name is cached by Results and by History under other
\* titles, and the inline title is the one shown.
C30_Witness ==
    /\ Listed
    /\ Entry(1).filename = Watch(ID1)
    /\ Entry(1).title = <<"T">>
    /\ UrlTitles(ResultsList, Watch(ID1)) = {<<"S", "1">>}
    /\ UrlTitles(HistoryList, Watch(ID1)) = {<<"S", "2">>}
    /\ Shown(1) = <<"T">>

(***************************************************************************)
(* One command over files that are missing, unparseable or in order.       *)
(***************************************************************************)
S1 == Track(<<"S", "1">>, Watch(ID1))
S2 == Track(<<"S", "2">>, Watch(ID2))

\* An unparseable file, with the list it held before it was damaged.
Unparseable(list) == [st |-> "corrupt", items |-> list]

StoredResults == { Missing, Unparseable(<<S1, S2>>), Written(<<S1, S2>>) }
StoredHistory == { Missing, Unparseable(<<S2>>), Written(<<S2>>) }
StoredFavorites ==
    { Missing, Unparseable(<<S1>>), Written(<<>>), Written(<<S1>>), Written(<<S1, S2>>) }

InitStore ==
    /\ resultsFile \in StoredResults
    /\ historyFile \in StoredHistory
    /\ favFile \in StoredFavorites
    /\ player \in {"absent", "listening"}
    /\ pc = "idle"
    /\ frame = NoFrame
    /\ probe = NoCall
    /\ lastCall = NoCall
    /\ calls = <<>>
    /\ spawns = <<>>
    /\ out = <<>>
    /\ loaded = NothingLoaded
    /\ fault = "none"
    /\ updateFile = NoCache
    /\ clock = Window
    /\ requests = <<>>

NextStore ==
    \/ \E number \in Numbers : cmd_play(number)
    \/ \E number \in Numbers : cmd_add(number)
    \/ cmd_queue
    \/ cmd_fav_list
    \/ \E target \in Targets \ {NoTarget} : cmd_fav_add(target)
    \/ \E target \in Targets : cmd_fav_remove(target)
    \/ \E target \in Targets : cmd_fav_play(target)
    \/ Probe
    \/ Replace
    \/ Unpause
    \/ AppendNext
    \/ Spawn
    \/ AddLoad

SpecStore == InitStore /\ [][NextStore]_vars

\* The file is missing or unparseable.
Unreadable(file) == file.st # "ok"

\* What a readable file holds, nothing for an unreadable one.
Held(file) == IF Unreadable(file) THEN <<>> ELSE file.items

\* C23: no step of a command other than the launch of the player leaves an
\* uncaught fault, and a command that finds Results, History or Favorites
\* missing or unparseable does what it does on an empty collection: play and
\* add report and stop, save_to_history writes the one-entry list, fav list
\* shows nothing, fav add writes the one-entry list, fav remove and fav play
\* report and stop, queue resolves titles from the readable files only.
C23_UnreadableIsEmpty ==
    [][/\ pc # "spawn" => fault' = "none"
       /\ pc = "idle" =>
          /\ (frame'.cmd \in {"play", "add"} /\ Unreadable(resultsFile))
                => /\ pc' = "done"
                   /\ calls' = <<>>
                   /\ out' \in { <<"No search results found">>, <<"Error playing">>,
                                 <<"Error adding to queue">> }
                   /\ UNCHANGED <<resultsFile, historyFile, favFile>>
          /\ (frame'.cmd \in {"play", "add", "fav_play"} /\ pc' # "done"
                /\ Unreadable(historyFile))
                => historyFile' = Written(<<frame'.track>>)
          /\ (frame'.cmd = "fav_list" /\ Unreadable(favFile))
                => out' = <<"No favorites yet">> /\ favFile' = favFile
          /\ (frame'.cmd = "fav_add" /\ Unreadable(favFile)
                /\ ~Unreadable(resultsFile)
                /\ frame'.number \in 1..Len(resultsFile.items))
                => /\ favFile' = Written(<<resultsFile.items[frame'.number]>>)
                   /\ out' = <<"Added to favorites">>
          /\ (frame'.cmd = "fav_remove" /\ Unreadable(favFile))
                => /\ pc' = "done"
                   /\ favFile' = favFile
                   /\ out' \in { <<"Specify an index to remove">>,
                                 <<"Invalid index found">>, <<"Invalid index">> }
          /\ (frame'.cmd = "fav_play" /\ Unreadable(favFile))
                => /\ pc' = "done"
                   /\ calls' = <<>>
                   /\ out' = <<"No favorites to play">>
                   /\ UNCHANGED <<historyFile, favFile>>
          /\ (frame'.cmd = "queue" /\ IsSuccess(lastCall'.ret)
                /\ lastCall'.ret.data # <<>>)
                => out' = <<"Current Queue">>
                          \o QueueLines(lastCall'.ret.data,
                                load_into_maps(load_into_maps(EmptyMaps, Held(resultsFile)),
                                               Held(historyFile)))]_vars

\* `fav list` has run on an unparseable Favorites file that held an entry,
\* with Results unparseable too, and has shown no entry.
C23_Witness ==
    /\ pc = "done"
    /\ frame.cmd = "fav_list"
    /\ favFile = Unparseable(<<S1>>)
    /\ resultsFile = Unparseable(<<S1, S2>>)
    /\ out = <<"No favorites yet">>
    /\ fault = "none"

(***************************************************************************)
(* The transport commands, status and agent, and every command's requests. *)
(***************************************************************************)
\* commands.py:150-172, 203-209, 216-218: one call whose result is dropped,
\* then one line printed.
OneCall(cmd, command, msg) ==
    /\ \E o \in Replies(player, {"null"}) : Issue(send_ipc_command(command, o))
    /\ Return(cmd, <<msg>>)
    /\ UNCHANGED <<resultsFile, historyFile, favFile, probe, spawns, fault>>

cmd_pause ==
    /\ pc = "idle"
    /\ OneCall("pause", SetProperty("pause", "true"), "Paused")
    /\ UNCHANGED <<updateFile, clock, requests>>
cmd_resume ==
    /\ pc = "idle"
    /\ OneCall("resume", SetProperty("pause", "false"), "Resumed")
    /\ UNCHANGED <<updateFile, clock, requests>>
cmd_toggle ==
    /\ pc = "idle"
    /\ OneCall("toggle", <<"cycle", "pause">>, "Toggled playback")
    /\ UNCHANGED <<updateFile, clock, requests>>
cmd_loop ==
    /\ pc = "idle"
    /\ OneCall("loop", SetProperty("loop-file", "inf"), "Looping current track")
    /\ UNCHANGED <<updateFile, clock, requests>>
cmd_unloop ==
    /\ pc = "idle"
    /\ OneCall("unloop", SetProperty("loop-file", "no"), "Unlooped")
    /\ UNCHANGED <<updateFile, clock, requests>>
cmd_next ==
    /\ pc = "idle"
    /\ OneCall("next", <<"playlist-next">>, "Skipping to next track")
    /\ UNCHANGED <<updateFile, clock, requests>>
cmd_prev ==
    /\ pc = "idle"
    /\ OneCall("prev", <<"playlist-prev">>, "Going to previous track")
    /\ UNCHANGED <<updateFile, clock, requests>>
cmd_clear ==
    /\ pc = "idle"
    /\ OneCall("clear", <<"playlist-clear">>, "Queue cleared")
    /\ UNCHANGED <<updateFile, clock, requests>>

\* commands.py:211-212: the seek of cmd_restart
cmd_restart ==
    /\ pc = "idle"
    /\ \E o \in Replies(player, {"null"}) :
          Issue(send_ipc_command(<<"seek", "0", "absolute">>, o))
    /\ frame' = [frame EXCEPT !.cmd = "restart"]
    /\ pc' = "restart_unpause"
    /\ UNCHANGED <<resultsFile, historyFile, favFile, probe, spawns, out, fault>>
    /\ UNCHANGED <<updateFile, clock, requests>>

\* commands.py:213-214
RestartUnpause ==
    /\ pc = "restart_unpause"
    /\ \E o \in Replies(player, {"null"}) :
          Issue(send_ipc_command(SetProperty("pause", "false"), o))
    /\ pc' = "done"
    /\ out' = <<"Restarting current track">>
    /\ UNCHANGED <<resultsFile, historyFile, favFile, frame, probe, spawns, fault>>
    /\ UNCHANGED <<updateFile, clock, requests>>

\* commands.py:275-277: the title decides which properties are read next
cmd_status ==
    /\ pc = "idle"
    /\ \E o \in Replies(player, {"null", "A"}) :
          LET resp == get_ipc_property("media-title", o)
          IN  /\ Issue(resp)
              /\ frame' = [frame EXCEPT !.cmd = "status",
                                        !.track.title = resp.ret.data]
              /\ pc' = IF IsSuccess(resp.ret) /\ HasData(resp.ret)
                       THEN "status_pause" ELSE "status_idle"
    /\ UNCHANGED <<resultsFile, historyFile, favFile, probe, spawns, out, fault>>
    /\ UNCHANGED <<updateFile, clock, requests>>

\* commands.py:280, 283
StatusPause ==
    /\ pc = "status_pause"
    /\ \E o \in Replies(player, {"true", "false"}) :
          LET paused == get_ipc_property("pause", o)
          IN  /\ Issue(paused)
              /\ out' = <<IF HasData(paused.ret) THEN "[Paused]" ELSE "[Playing]">>
    /\ pc' = "status_loop"
    /\ UNCHANGED <<resultsFile, historyFile, favFile, frame, probe, spawns, fault>>
    /\ UNCHANGED <<updateFile, clock, requests>>

\* commands.py:281, 285-288
StatusLoop ==
    /\ pc = "status_loop"
    /\ \E o \in Replies(player, {"inf", "yes", "no"}) :
          LET looping == get_ipc_property("loop-file", o)
          IN  /\ Issue(looping)
              /\ out' = out
                        \o (IF Truthy(looping.ret) /\ looping.ret.data \in {"inf", "yes"}
                            THEN <<"[Looped]">> ELSE <<>>)
                        \o <<frame.track.title>>
    /\ pc' = "done"
    /\ UNCHANGED <<resultsFile, historyFile, favFile, frame, probe, spawns, fault>>
    /\ UNCHANGED <<updateFile, clock, requests>>

\* commands.py:289-293
StatusIdle ==
    /\ pc = "status_idle"
    /\ \E o \in Replies(player, {"true", "false"}) :
          LET idle == get_ipc_property("idle-active", o)
          IN  /\ Issue(idle)
              /\ out' = <<IF Truthy(idle.ret) THEN "Queue is empty"
                                              ELSE "Yit is not running">>
    /\ pc' = "done"
    /\ UNCHANGED <<resultsFile, historyFile, favFile, frame, probe, spawns, fault>>
    /\ UNCHANGED <<updateFile, clock, requests>>

\* Mutant: the playlist count is not read.
AgentPropsShort ==
    <<"pause", "media-title", "path", "time-pos", "duration", "volume",
      "loop-file">>

\* commands.py:311-318: the properties cmd_agent reads after idle-active
AgentProps ==
    <<"pause", "media-title", "path", "time-pos", "duration", "volume",
      "loop-file", "playlist-count">>

\* commands.py:320-341: what a response adds to the state printed
AgentField(prop, r) ==
    IF prop = "pause"
    THEN IF Truthy(r) /\ r.data = "true" THEN <<"paused">>
         ELSE IF Truthy(r) /\ r.data = "false" THEN <<"playing">>
         ELSE <<>>
    ELSE IF prop = "loop-file"
    THEN IF Truthy(r) /\ r.data \in {"inf", "yes"} THEN <<"loop">> ELSE <<>>
    ELSE IF HasData(r) THEN <<prop>> ELSE <<>>

\* What the player answers for a property cmd_agent reads.
AgentData(prop) ==
    IF prop = "pause" THEN {"true", "false"}
    ELSE IF prop = "loop-file" THEN {"inf", "no"}
    ELSE {"1"}

\* commands.py:295-309
cmd_agent ==
    /\ pc = "idle"
    /\ \E o \in Replies(player, {"true", "false"}) :
          LET idle_resp == get_ipc_property("idle-active", o)
          IN  /\ Issue(idle_resp)
              /\ pc' = IF Truthy(idle_resp.ret) THEN "agent" ELSE "done"
    /\ frame' = [frame EXCEPT !.cmd = "agent", !.i = 1]
    /\ out' = <<"stopped">>
    /\ UNCHANGED <<resultsFile, historyFile, favFile, probe, spawns, fault>>
    /\ UNCHANGED <<updateFile, clock, requests>>

\* commands.py:311-343: one of the eight reads, the state printed after the last
AgentRead ==
    /\ pc = "agent"
    /\ \E o \in Replies(player, AgentData(AgentProps[frame.i])) :
          LET resp == get_ipc_property(AgentProps[frame.i], o)
          IN  /\ Issue(resp)
              /\ out' = IF AgentProps[frame.i] = "pause" /\ AgentField("pause", resp.ret) # <<>>
                        THEN AgentField("pause", resp.ret)
                        ELSE out \o AgentField(AgentProps[frame.i], resp.ret)
    /\ frame' = [frame EXCEPT !.i = frame.i + 1]
    /\ pc' = IF frame.i = Len(AgentProps) THEN "done" ELSE "agent"
    /\ UNCHANGED <<resultsFile, historyFile, favFile, probe, spawns, fault>>
    /\ UNCHANGED <<updateFile, clock, requests>>

\* Results of a search and no favorites, or favorites and no search yet.
InitControl ==
    /\ \/ resultsFile = Written(<<S1, S2>>) /\ favFile = Missing
       \/ resultsFile = Missing
          /\ favFile = Written(<<Track("A", "u1"), Track("C", "u2")>>)
    /\ historyFile = Missing
    /\ player \in {"absent", "listening"}
    /\ pc = "idle"
    /\ frame = NoFrame
    /\ probe = NoCall
    /\ lastCall = NoCall
    /\ calls = <<>>
    /\ spawns = <<>>
    /\ out = <<>>
    /\ loaded = NothingLoaded
    /\ fault = "none"
    /\ updateFile = NoCache
    /\ clock = Window
    /\ requests = <<>>

NextControl ==
    \/ \E number \in Numbers : cmd_play(number)
    \/ \E number \in Numbers : cmd_add(number)
    \/ cmd_queue
    \/ \E target \in Targets : cmd_fav_add(target)
    \/ \E target \in Targets : cmd_fav_play(target)
    \/ cmd_pause
    \/ cmd_resume
    \/ cmd_toggle
    \/ cmd_stop
    \/ cmd_loop
    \/ cmd_unloop
    \/ cmd_next
    \/ cmd_prev
    \/ cmd_restart
    \/ cmd_clear
    \/ cmd_status
    \/ cmd_agent
    \/ Probe
    \/ Replace
    \/ Unpause
    \/ AppendNext
    \/ Spawn
    \/ AddLoad
    \/ FavPath
    \/ FavTitle
    \/ RestartUnpause
    \/ StatusPause
    \/ StatusLoop
    \/ StatusIdle
    \/ AgentRead

SpecControl == InitControl /\ [][NextControl]_vars

Verbs ==
    {"get_property", "set_property", "cycle", "loadfile", "playlist-next",
     "playlist-prev", "playlist-clear", "seek", "quit"}

WellFormed(req) ==
    /\ req # <<>>
    /\ req[1] \in Verbs
    /\ req[1] = "loadfile" => Len(req) = 3 /\ req[3] \in {"replace", "append", "append-play"}
    /\ req[1] = "seek" => Len(req) = 3 /\ req[3] = "absolute"

\* C26: every request issued by any command has one of the nine verbs, a
\* loadfile carries replace, append or append-play and a seek carries
\* absolute; what is written to the channel is the object {"command": request}
\* followed by one newline.
C26_RequestShape ==
    /\ \A k \in 1..Len(calls) : WellFormed(calls[k])
    /\ lastCall.wrote => lastCall.sent = <<[command |-> lastCall.req], "\n">>

\* restart has issued its seek and its unpause.
C26_Witness ==
    /\ pc = "done"
    /\ frame.cmd = "restart"
    /\ calls = << <<"seek", "0", "absolute">>, <<"set_property", "pause", "false">> >>
    /\ lastCall.wrote

(***************************************************************************)
(* Two invocations at once.  Here pc, frame and probe hold one value per   *)
(* process; the files, the player and the endpoint are shared.  A file is  *)
(* read in one step and rewritten in a later one, as storage.py does.      *)
(***************************************************************************)
Procs == {1, 2}

\* The results both invocations index.
RaceResults == <<Track("A", "u1"), Track("C", "u2")>>

\* Mutant: the track is appended to the loaded list without looking for it.
StoredListAppended(loadedList, file, track) == Append(loadedList, track)

\* Mutant: the list is read again at the moment it is rewritten.
StoredListReloaded(loadedList, file, track) ==
    AppendIfNew(IF file.st = "ok" THEN file.items ELSE <<>>, track)

\* storage.py:15-27, commands.py:409-412: the list rewritten is the one the
\* process loaded earlier, with its track appended when new; the file as it
\* is by now plays no part.
StoredList(loadedList, file, track) == AppendIfNew(loadedList, track)

\* Mutant: a process spawns only when no other has.
SpawnAllowedOnce(launched) == launched = <<>>

\* commands.py:94-128: the spawn branch is entered on the probe's outcome
\* alone; no lock or pid file is consulted.
SpawnAllowed(launched) == TRUE

\* History and Favorites are not there yet, or hold one of the results.
InitRace ==
    /\ resultsFile = Written(RaceResults)
    /\ \/ historyFile = Missing /\ favFile = Missing
       \/ /\ historyFile = Written(<<RaceResults[1]>>)
          /\ favFile = Written(<<RaceResults[1]>>)
    /\ player \in {"absent", "listening"}
    /\ pc = [p \in Procs |-> "idle"]
    /\ frame = [p \in Procs |-> NoFrame]
    /\ probe = [p \in Procs |-> NoCall]
    /\ lastCall = NoCall
    /\ calls = <<>>
    /\ spawns = <<>>
    /\ out = <<>>
    /\ loaded = NothingLoaded
    /\ fault = "none"
    /\ updateFile = NoCache
    /\ clock = Window
    /\ requests = <<>>

\* Process p moves to position next.
Goto(p, next) == pc' = [pc EXCEPT ![p] = next]

\* commands.py:130-144, 367-391: `play <number>` or `fav add <number>` starts
RaceStart(p, cmd, number) ==
    /\ pc[p] = "idle"
    /\ frame' = [frame EXCEPT ![p] = [NoFrame EXCEPT !.cmd = cmd, !.number = number,
                                                     !.track = RaceResults[number]]]
    /\ Goto(p, IF cmd = "play" THEN "load_history" ELSE "load_favs")
    /\ UNCHANGED <<resultsFile, historyFile, favFile, player, probe, lastCall,
                   calls, spawns, out, loaded, fault>>
    /\ UNCHANGED <<updateFile, clock, requests>>

\* storage.py:7-13
RaceLoadHistory(p) ==
    /\ pc[p] = "load_history"
    /\ frame' = [frame EXCEPT ![p].tracks = load_history(historyFile)]
    /\ Goto(p, "write_history")
    /\ UNCHANGED <<resultsFile, historyFile, favFile, player, probe, lastCall,
                   calls, spawns, out, loaded, fault>>
    /\ UNCHANGED <<updateFile, clock, requests>>

\* storage.py:15-27
RaceWriteHistory(p) ==
    /\ pc[p] = "write_history"
    /\ historyFile' = Written(StoredList(frame[p].tracks, historyFile, frame[p].track))
    /\ out' = Append(out, [proc |-> p, file |-> "history"])
    /\ Goto(p, "probe")
    /\ UNCHANGED <<resultsFile, favFile, player, frame, probe, lastCall, calls,
                   spawns, loaded, fault>>
    /\ UNCHANGED <<updateFile, clock, requests>>

\* commands.py:85-87
RaceProbe(p) ==
    /\ pc[p] = "probe"
    /\ \E o \in Replies(player, {"true"}) :
          LET c == send_ipc_command(GetProperty("idle-active"), o)
          IN  /\ Issue(c)
              /\ probe' = [probe EXCEPT ![p] = c]
              /\ Goto(p, IF Truthy(c.ret) /\ c.ret.error = "success"
                         THEN "replace" ELSE "spawn")
    /\ UNCHANGED <<resultsFile, historyFile, favFile, frame, spawns, out, fault>>
    /\ UNCHANGED <<updateFile, clock, requests>>

\* commands.py:89
RaceReplace(p) ==
    /\ pc[p] = "replace"
    /\ \E o \in Replies(player, {"null"}) :
          Issue(send_ipc_command(FirstLoad(<<frame[p].track>>), o))
    /\ Goto(p, "unpause")
    /\ UNCHANGED <<resultsFile, historyFile, favFile, frame, probe, spawns, out, fault>>
    /\ UNCHANGED <<updateFile, clock, requests>>

\* commands.py:90
RaceUnpause(p) ==
    /\ pc[p] = "unpause"
    /\ \E o \in Replies(player, {"null"}) :
          Issue(send_ipc_command(SetProperty("pause", "false"), o))
    /\ Goto(p, "done")
    /\ UNCHANGED <<resultsFile, historyFile, favFile, frame, probe, spawns, out, fault>>
    /\ UNCHANGED <<updateFile, clock, requests>>

\* commands.py:95-128, the binary found and the launch succeeding
RaceSpawn(p) ==
    /\ pc[p] = "spawn"
    /\ IF SpawnAllowed(spawns)
       THEN /\ spawns' = Append(spawns, SpawnArgs(<<frame[p].track>>))
            /\ player' = IF player = "absent" THEN "starting" ELSE player
       ELSE UNCHANGED <<spawns, player>>
    /\ Goto(p, "done")
    /\ UNCHANGED <<resultsFile, historyFile, favFile, frame, probe, lastCall,
                   calls, out, loaded, fault>>
    /\ UNCHANGED <<updateFile, clock, requests>>

\* commands.py:368, storage.py:31-38
RaceLoadFavs(p) ==
    /\ pc[p] = "load_favs"
    /\ frame' = [frame EXCEPT ![p].tracks = load_favorites(favFile)]
    /\ Goto(p, "save_favs")
    /\ UNCHANGED <<resultsFile, historyFile, favFile, player, probe, lastCall,
                   calls, spawns, out, loaded, fault>>
    /\ UNCHANGED <<updateFile, clock, requests>>

\* commands.py:408-414, storage.py:40-43: nothing is written for a duplicate
RaceSaveFavs(p) ==
    /\ pc[p] = "save_favs"
    /\ IF HasUrl(frame[p].tracks, frame[p].track.url)
       THEN UNCHANGED <<favFile, out>>
       ELSE /\ favFile' = save_favorites(StoredList(frame[p].tracks, favFile,
                                                    frame[p].track))
            /\ out' = Append(out, [proc |-> p, file |-> "favorites"])
    /\ Goto(p, "done")
    /\ UNCHANGED <<resultsFile, historyFile, player, frame, probe, lastCall,
                   calls, spawns, loaded, fault>>
    /\ UNCHANGED <<updateFile, clock, requests>>

\* The spawned player starts listening while the invocations run.
RacePlayerReady ==
    /\ player = "starting"
    /\ player' = "listening"
    /\ UNCHANGED <<resultsFile, historyFile, favFile, pc, frame, probe, lastCall,
                   calls, loaded, spawns, out, fault>>
    /\ UNCHANGED <<updateFile, clock, requests>>

NextRace ==
    \/ \E p \in Procs, cmd \in {"play", "fav_add"}, number \in 1..Len(RaceResults) :
          RaceStart(p, cmd, number)
    \/ \E p \in Procs : RaceLoadHistory(p)
    \/ \E p \in Procs : RaceWriteHistory(p)
    \/ \E p \in Procs : RaceProbe(p)
    \/ \E p \in Procs : RaceReplace(p)
    \/ \E p \in Procs : RaceUnpause(p)
    \/ \E p \in Procs : RaceSpawn(p)
    \/ \E p \in Procs : RaceLoadFavs(p)
    \/ \E p \in Procs : RaceSaveFavs(p)
    \/ RacePlayerReady

SpecRace == InitRace /\ [][NextRace]_vars

\* Process p takes a step from position at.
StepsFrom(p, at) == pc[p] = at /\ pc'[p] # at

\* C24: whenever an invocation rewrites History or Favorites, the file
\* afterwards is exactly the list that invocation loaded earlier plus its own
\* track, whatever another invocation wrote in between; nothing is merged.
C24_LastWriterWins ==
    [][\A p \in Procs :
          /\ StepsFrom(p, "write_history")
                => historyFile' = Written(AppendIfNew(frame[p].tracks, frame[p].track))
          /\ (StepsFrom(p, "save_favs") /\ favFile' # favFile)
                => favFile' = Written(Append(frame[p].tracks, frame[p].track))]_vars

\* Both invocations played tracks with distinct urls and are done; History
\* holds one of the two.
C24_Witness ==
    /\ \A p \in Procs : pc[p] = "done" /\ frame[p].cmd = "play"
    /\ frame[1].track.url # frame[2].track.url
    /\ Len(out) = 2
    /\ historyFile.st = "ok"
    /\ Len(historyFile.items) = 1

\* C25: an invocation whose probe did not succeed launches a player whatever
\* the other invocation has done: the players launched are as many as the
\* invocations that left the spawn branch.
C25_SpawnUnguarded ==
    Len(spawns) = Cardinality({ p \in Procs : /\ pc[p] = "done"
                                              /\ frame[p].cmd = "play"
                                              /\ ~IsSuccess(probe[p].ret) })

\* Both invocations started with no player, both probes found nobody at the
\* endpoint, and two players were launched.
C25_Witness ==
    /\ \A p \in Procs : pc[p] = "done" /\ probe[p].env \in AbsentKinds
    /\ Len(spawns) = 2
    /\ calls = <<ProbeRequest, ProbeRequest>>

(***************************************************************************)
(* A search whose tool fails.                                              *)
(***************************************************************************)
\* The search has ended after the tool could not be run (commands.py:67-68)
\* or exited non-zero (commands.py:42-45).
SearchToolFailed ==
    /\ frame.cmd = "search"
    /\ pc = "done"
    /\ Len(out) >= 2
    /\ out[2] \in {"Unexpected error", "yt-dlp returned"}

\* C37 (as stated): when the search tool cannot be run or returns a failure,
\* cmd_search reports the error, leaves Results unchanged, attempts no play
\* (no History entry, no call, no player launched) and returns without an
\* uncaught fault, with and without -p.
C37_Original ==
    [][(pc = "idle" /\ SearchToolFailed')
          => /\ resultsFile' = resultsFile
             /\ historyFile' = historyFile
             /\ calls' = calls
             /\ spawns' = spawns
             /\ fault' = "none"]_vars

(***************************************************************************)
(* What play_tracks records in History, and when.                          *)
(***************************************************************************)
\* The step that enters play_tracks with a non-empty batch.
EntersPlay == pc = "idle" /\ pc' = "probe"

\* The list `after` is the list `before`, or `before` with `track` at its end.
GainedAtMost(before, after, track) ==
    \/ after = before
    \/ after = Append(before, track)

\* C34: play_tracks writes History before it probes and records the first
\* track only.  The step entering play_tracks leaves in History the list it
\* held with at most t1 added, t1's url being in it, and makes no call and
\* launches nothing; no later step of the invocation (probe, loadfile,
\* unpause, spawn), succeeding or failing, touches History again.
C34_SavesFirstOnly ==
    [][/\ EntersPlay =>
             /\ historyFile'.st = "ok"
             /\ GainedAtMost(load_history(historyFile), historyFile'.items,
                             frame'.tracks[1])
             /\ HasUrl(historyFile'.items, frame'.tracks[1].url)
             /\ calls' = calls
             /\ spawns' = spawns
       /\ pc \in {"probe", "replace", "unpause", "append", "spawn"}
             => historyFile' = historyFile]_vars

\* A batch of two tracks with distinct urls was played with no player and no
\* mpv binary: the launch failed, and History holds the first track alone.
C34_Witness ==
    /\ pc = "done"
    /\ frame.cmd = "play_tracks"
    /\ frame.tracks = <<Track("A", "u1"), Track("C", "u2")>>
    /\ fault = "sysexit"
    /\ calls = <<ProbeRequest>>
    /\ historyFile = Written(<<Track("A", "u1")>>)

(***************************************************************************)
(* One entry per url, with two invocations at once.                        *)
(***************************************************************************)
\* C33: under every interleaving of two invocations that each load History
\* (or Favorites) in one step and rewrite it whole in a later one, starting
\* from duplicate-free files, neither stored list ever holds two entries
\* with the same url.
C33_UniqueUnderRaces ==
    /\ UniqueUrls(load_history(historyFile))
    /\ UniqueUrls(load_favorites(favFile))

\* Both invocations played the same track, each loaded History before the
\* other wrote it, both wrote, and History holds the track once.
C33_Witness ==
    /\ \A p \in Procs : /\ pc[p] = "done"
                        /\ frame[p].cmd = "play"
                        /\ frame[p].track = RaceResults[1]
                        /\ frame[p].tracks = <<>>
    /\ Len(out) = 2
    /\ historyFile = Written(<<RaceResults[1]>>)

(***************************************************************************)
(* The commands that only talk to the player.                              *)
(***************************************************************************)
\* cli.py:42-52, 60-84, 97-98: `back` runs cmd_prev, `replay` cmd_restart.
PureControl ==
    {"pause", "resume", "toggle", "stop", "loop", "unloop", "next", "prev",
     "restart", "clear", "queue", "status", "agent"}

\* The requests each of them issues, first to last.  status goes on by the
\* title it was given, agent stops after idle-active when it got no response.
ControlCalls(cmd) ==
    CASE cmd = "pause"   -> { << <<"set_property", "pause", "true">> >> }
      [] cmd = "resume"  -> { << <<"set_property", "pause", "false">> >> }
      [] cmd = "toggle"  -> { << <<"cycle", "pause">> >> }
      [] cmd = "stop"    -> { << <<"quit">> >> }
      [] cmd = "loop"    -> { << <<"set_property", "loop-file", "inf">> >> }
      [] cmd = "unloop"  -> { << <<"set_property", "loop-file", "no">> >> }
      [] cmd = "next"    -> { << <<"playlist-next">> >> }
      [] cmd = "prev"    -> { << <<"playlist-prev">> >> }
      [] cmd = "clear"   -> { << <<"playlist-clear">> >> }
      [] cmd = "restart" -> { << <<"seek", "0", "absolute">>,
                                 <<"set_property", "pause", "false">> >> }
      [] cmd = "queue"   -> { << <<"get_property", "playlist">> >> }
      [] cmd = "status"  -> { << <<"get_property", "media-title">>,
                                 <<"get_property", "pause">>,
                                 <<"get_property", "loop-file">> >>,
                              << <<"get_property", "media-title">>,
                                 <<"get_property", "idle-active">> >> }
      [] cmd = "agent"   -> { << <<"get_property", "idle-active">> >>,
                              << <<"get_property", "idle-active">>,
                                 <<"get_property", "pause">>,
                                 <<"get_property", "media-title">>,
                                 <<"get_property", "path">>,
                                 <<"get_property", "time-pos">>,
                                 <<"get_property", "duration">>,
                                 <<"get_property", "volume">>,
                                 <<"get_property", "loop-file">>,
                                 <<"get_property", "playlist-count">> >> }
      [] OTHER -> {}

\* C35: a pure control command, with a player listening or with none, never
\* launches a player and never changes Results, History or Favorites; the
\* requests it has issued are the beginning of its fixed sequence, and the
\* whole of it once the command is done (replay: seek 0 absolute, then
\* set_property pause false).
C35_PureControl ==
    /\ [](frame.cmd \in PureControl =>
             /\ spawns = <<>>
             /\ \E s \in ControlCalls(frame.cmd) : IsPrefix(calls, s)
             /\ pc = "done" => calls \in ControlCalls(frame.cmd))
    /\ [][frame'.cmd \in PureControl
             => UNCHANGED <<resultsFile, historyFile, favFile>>]_vars

\* agent has read idle-active and the eight properties from a listening
\* player; nothing was launched and History is still not there.
C35_Witness ==
    /\ pc = "done"
    /\ frame.cmd = "agent"
    /\ Len(calls) = 9
    /\ calls[9] = <<"get_property", "playlist-count">>
    /\ player = "listening"
    /\ spawns = <<>>
    /\ historyFile = Missing

(***************************************************************************)
(* The MCP tool play_favorites (mcp_server.py:157-167).                    *)
(***************************************************************************)
McpIndexes == {NoIndex} \cup { Index(n) : n \in 0..(MaxFavs + 1) }

\* The favorites the server finds: none, one or two.
McpFavorites ==
    { Missing,
      Written(<<Track("A", "u1")>>),
      Written(<<Track("A", "u1"), Track("C", "u2")>>) }

\* mcp_server.py:162: target = str(index_to_play) if index_to_play else None
McpTarget(ix) == IF ix.given /\ ix.n # 0 THEN NumTarget(ix.n) ELSE NoTarget

InitMcp ==
    /\ resultsFile = Missing
    /\ historyFile = Missing
    /\ favFile \in McpFavorites
    /\ player \in {"absent", "listening"}
    /\ pc = "idle"
    /\ frame = NoFrame
    /\ probe = NoCall
    /\ lastCall = NoCall
    /\ calls = <<>>
    /\ spawns = <<>>
    /\ out = <<>>
    /\ loaded = NothingLoaded
    /\ fault = "none"
    /\ updateFile = NoCache
    /\ clock = Window
    /\ requests = <<>>

\* The server receives a play_favorites call with argument ix.
McpRequest(ix) ==
    /\ pc = "idle"
    /\ ~frame.tool.requested
    /\ frame' = [frame EXCEPT !.tool = ix]
    /\ UNCHANGED <<resultsFile, historyFile, favFile, player, pc, probe, lastCall,
                   calls, spawns, out, loaded, fault>>
    /\ UNCHANGED <<updateFile, clock, requests>>

\* mcp_server.py:157-167: cmd_fav with action "play" and the target built
\* from the argument
play_favorites ==
    /\ frame.tool.requested
    /\ frame.cmd = ""
    /\ cmd_fav_play(McpTarget(frame.tool))
    /\ UNCHANGED <<updateFile, clock, requests>>

NextMcp ==
    \/ \E ix \in McpIndexes : McpRequest(ix)
    \/ play_favorites
    \/ Probe
    \/ Replace
    \/ Unpause
    \/ AppendNext
    \/ Spawn
    \/ Exit
    \/ PlayerReady

SpecMcp == InitMcp /\ [][NextMcp]_vars

\* C32 (as stated): play_favorites given an index plays that favorite alone
\* or reports an invalid index (or that there are no favorites); it never
\* plays the whole list, which is played only when no index is given.
C32_Original ==
    (frame.cmd = "fav_play" /\ frame.tool.given) =>
        /\ out[1] # "Playing all"
        /\ frame.tracks # <<>> =>
              /\ InRange(frame.tool.n - 1, load_favorites(favFile))
              /\ frame.tracks = <<load_favorites(favFile)[frame.tool.n]>>

(***************************************************************************)
(* Termination.  A peer may accept the connection and then neither answer  *)
(* nor close: the reply kind "silent".  The commands are those of          *)
(* SpecControl; an invocation that has started keeps running (weak         *)
(* fairness on its steps), starting one is up to the user.                 *)
(***************************************************************************)
\* Mutant: the read gives up after a while.
readline_timeout(kind) == "line or end"

\* ipc.py:19-20, 40-42, 51, 72: readline on a socket that was given no
\* timeout returns once a line or the end of the stream arrives
readline(kind) == IF kind = "silent" THEN "never" ELSE "line or end"

\* ipc.py:47-51, 65-72: a call whose peer stays silent, up to its readline
SilentCall(fn, req) ==
    [ fn     |-> fn,
      req    |-> req,
      env    |-> "silent",
      ret    |-> None,
      wrote  |-> TRUE,
      sent   |-> Payload(req),
      logged |-> FALSE,
      raised |-> FALSE,
      conn   |-> <<"connect", "write", "flush", "readline">> ]

\* The call is made to a silent peer; the invocation stays in it.
IssueSilent(fn, req) ==
    /\ player # "absent"
    /\ calls' = Append(calls, req)
    /\ lastCall' = SilentCall(fn, req)
    /\ pc' = IF readline("silent") = "never" THEN "blocked" ELSE "done"
    /\ UNCHANGED <<resultsFile, historyFile, favFile, player, probe, spawns, out,
                   loaded, fault>>

\* The commands whose first statement is a call (commands.py:150-172,
\* 203-221, 276, 306, 399), and that call.
StartsWithCall == PureControl \cup {"fav_add"}

FirstRequest(cmd) ==
    IF cmd = "fav_add" THEN GetProperty("path")
    ELSE (CHOOSE s \in ControlCalls(cmd) : TRUE)[1]

\* The call an invocation at position at makes next.
PendingRequest(at) ==
    CASE at = "probe"           -> GetProperty("idle-active")
      [] at = "replace"         -> FirstLoad(frame.tracks)
      [] at = "unpause"         -> SetProperty("pause", "false")
      [] at = "append"          -> NextAppend(frame.tracks, frame.i)
      [] at = "add_load"        -> LoadFile(frame.track.url, "append-play")
      [] at = "fav_path"        -> GetProperty("path")
      [] at = "fav_title"       -> GetProperty("media-title")
      [] at = "restart_unpause" -> SetProperty("pause", "false")
      [] at = "status_pause"    -> GetProperty("pause")
      [] at = "status_loop"     -> GetProperty("loop-file")
      [] at = "status_idle"     -> GetProperty("idle-active")
      [] at = "agent"           -> GetProperty(AgentProps[frame.i])

CallingSteps ==
    {"probe", "replace", "unpause", "append", "add_load", "fav_path", "fav_title",
     "restart_unpause", "status_pause", "status_loop", "status_idle", "agent"}

\* Which of the two client functions makes the request.
Caller(req, at) ==
    IF req[1] = "get_property" /\ at # "probe"
    THEN "get_ipc_property" ELSE "send_ipc_command"

\* A command's first call meets a silent peer.
HangAtStart(cmd) ==
    /\ pc = "idle"
    /\ frame' = [frame EXCEPT !.cmd = cmd]
    /\ IssueSilent(Caller(FirstRequest(cmd), "idle"), FirstRequest(cmd))
    /\ UNCHANGED <<updateFile, clock, requests>>

\* A later call of the invocation meets a silent peer.
HangInStep ==
    /\ pc \in CallingSteps
    /\ IssueSilent(Caller(PendingRequest(pc), pc), PendingRequest(pc))
    /\ UNCHANGED frame
    /\ UNCHANGED <<updateFile, clock, requests>>

NextHang ==
    \/ \E number \in Numbers : cmd_play(number)
    \/ \E number \in Numbers : cmd_add(number)
    \/ cmd_queue
    \/ \E target \in Targets : cmd_fav_add(target)
    \/ \E target \in Targets : cmd_fav_play(target)
    \/ cmd_pause
    \/ cmd_resume
    \/ cmd_toggle
    \/ cmd_stop
    \/ cmd_loop
    \/ cmd_unloop
    \/ cmd_next
    \/ cmd_prev
    \/ cmd_restart
    \/ cmd_clear
    \/ cmd_status
    \/ cmd_agent
    \/ \E cmd \in StartsWithCall : HangAtStart(cmd)
    \/ Probe
    \/ Replace
    \/ Unpause
    \/ AppendNext
    \/ Spawn
    \/ AddLoad
    \/ FavPath
    \/ FavTitle
    \/ RestartUnpause
    \/ StatusPause
    \/ StatusLoop
    \/ StatusIdle
    \/ AgentRead
    \/ HangInStep

\* The steps of an invocation that has started.
Running ==
    \/ Probe
    \/ Replace
    \/ Unpause
    \/ AppendNext
    \/ Spawn
    \/ AddLoad
    \/ FavPath
    \/ FavTitle
    \/ RestartUnpause
    \/ StatusPause
    \/ StatusLoop
    \/ StatusIdle
    \/ AgentRead
    \/ HangInStep

SpecHang == InitControl /\ [][NextHang]_vars /\ WF_vars(Running)

\* The most calls an invocation makes: one, the two of replay, the three of
\* status, the nine of agent, the two of `fav add`, probe, replace, unpause
\* and one append per further track for a play, and for `add` its loadfile
\* and the three of the play it falls back to, once.
CallBound(f) ==
    CASE f.cmd = ""        -> 0
      [] f.cmd = "restart" -> 2
      [] f.cmd = "status"  -> 3
      [] f.cmd = "agent"   -> 9
      [] f.cmd = "fav_add" -> 2
      [] f.cmd = "add"     -> 4
      [] f.cmd \in {"play", "fav_play"} -> Len(f.tracks) + 2
      [] OTHER             -> 1

\* C36: an invocation makes no more calls than its command's bound, and one
\* that has started ends, provided every read yields a line or the end of
\* the stream; a call whose peer accepts and then stays silent never
\* returns: the invocation is in that call from then on, and only so does an
\* invocation fail to end.
C36_EndsUnlessSilent ==
    /\ [](Len(calls) <= CallBound(frame))
    /\ (pc # "idle") ~> (pc \in {"done", "blocked"})
    /\ [](pc = "blocked" => lastCall.env = "silent")
    /\ [][lastCall'.env = "silent" => pc' = "blocked"]_vars
    /\ [][pc = "blocked" => pc' = "blocked"]_vars

\* `add 1` sent its loadfile to a peer that accepted and stayed silent.
C36_Witness ==
    /\ pc = "blocked"
    /\ frame.cmd = "add"
    /\ calls = << LoadFile(frame.track.url, "append-play") >>
    /\ lastCall.env = "silent"
    /\ lastCall.conn = <<"connect", "write", "flush", "readline">>

(***************************************************************************)
(* The update check (utils.py:14-38): every invocation starts it as a      *)
(* daemon thread (cli.py:14).  Two invocations, each of which may end and  *)
(* be followed by another; pc and frame hold one value per invocation.     *)
(* The clock moves in steps of half a window.                              *)
(***************************************************************************)
MaxTicks == 3
MaxRequests == 3

HalfWindow == Window \div 2

\* A cache file that does not parse (utils.py:26 passes over it).
BadCache == [st |-> "corrupt", last_checked |-> 0]

\* utils.py:20-26: the cache exists, parses and is less than a window old
Fresh(file, now) == file.st = "ok" /\ now - file.last_checked < Window

InitUpdate ==
    /\ resultsFile = Missing
    /\ historyFile = Missing
    /\ favFile = Missing
    /\ player = "absent"
    /\ pc = [p \in Procs |-> "idle"]
    /\ frame = [p \in Procs |-> NoFrame]
    /\ probe = [p \in Procs |-> NoCall]
    /\ lastCall = NoCall
    /\ calls = <<>>
    /\ spawns = <<>>
    /\ out = <<>>
    /\ loaded = NothingLoaded
    /\ fault = "none"
    /\ updateFile \in {NoCache, BadCache}
    /\ clock = Window
    /\ requests = <<>>

\* What the update check never touches.
UpdateFrame ==
    UNCHANGED <<resultsFile, historyFile, favFile, player, probe, lastCall, calls,
                spawns, out, loaded, fault>>

\* utils.py:18, 37-38: the thread starts and takes the time
check_for_updates(p) ==
    /\ pc[p] = "idle"
    /\ frame' = [frame EXCEPT ![p].cmd = "check_for_updates", ![p].now = clock]
    /\ Goto(p, "read_cache")
    /\ UNCHANGED <<updateFile, clock, requests>>
    /\ UpdateFrame

\* utils.py:20-26: return on a fresh cache, go on otherwise
ReadCache(p) ==
    /\ pc[p] = "read_cache"
    /\ Goto(p, IF Fresh(updateFile, frame[p].now) THEN "done" ELSE "request")
    /\ UNCHANGED <<frame, updateFile, clock, requests>>
    /\ UpdateFrame

\* utils.py:28-30, 34-35: the call to PyPI; when it fails nothing is written
Request(p) ==
    /\ pc[p] = "request"
    /\ Len(requests) < MaxRequests
    /\ requests' = Append(requests, clock)
    /\ \E resp \in {"ok", "failed"} : Goto(p, IF resp = "ok" THEN "write" ELSE "done")
    /\ UNCHANGED <<frame, updateFile, clock>>
    /\ UpdateFrame

\* utils.py:32-33: the time taken at the start is what is recorded
WriteCache(p) ==
    /\ pc[p] = "write"
    /\ updateFile' = CheckedAt(frame[p].now)
    /\ Goto(p, "done")
    /\ UNCHANGED <<frame, clock, requests>>
    /\ UpdateFrame

\* utils.py:37: a daemon thread ends with its process, wherever it is
Killed(p) ==
    /\ pc[p] \in {"read_cache", "request", "write"}
    /\ Goto(p, "done")
    /\ UNCHANGED <<frame, updateFile, clock, requests>>
    /\ UpdateFrame

\* The invocation is over; the next one starts afresh.
ExitUpdate(p) ==
    /\ pc[p] = "done"
    /\ frame' = [frame EXCEPT ![p] = NoFrame]
    /\ Goto(p, "idle")
    /\ UNCHANGED <<updateFile, clock, requests>>
    /\ UpdateFrame

\* Half a window passes.
Tick ==
    /\ clock < Window + MaxTicks * HalfWindow
    /\ clock' = clock + HalfWindow
    /\ UNCHANGED <<pc, frame, updateFile, requests>>
    /\ UpdateFrame

NextUpdate ==
    \/ \E p \in Procs : check_for_updates(p)
    \/ \E p \in Procs : ReadCache(p)
    \/ \E p \in Procs : Request(p)
    \/ \E p \in Procs : WriteCache(p)
    \/ \E p \in Procs : Killed(p)
    \/ \E p \in Procs : ExitUpdate(p)
    \/ Tick

SpecUpdate == InitUpdate /\ [][NextUpdate]_vars

\* C31 (as stated): over any sequence of invocations, failing and concurrent
\* ones included, any two calls the update check makes to the network are at
\* least a window (24 hours) apart, and the check changes neither Results,
\* History, Favorites nor the control-channel calls.
C31_Original ==
    /\ [](\A j, k \in 1..Len(requests) :
             j < k => requests[k] - requests[j] >= Window)
    /\ [][UNCHANGED <<resultsFile, historyFile, favFile, calls>>]_vars

====
